---- MODULE Spec2Model ----
(***************************************************************************)
(* Order submission workflow of the snack-n-go Slack bot                   *)
(* (src/all_connected/bot.py, src/all_connected/gemini.py).                *)
(*                                                                         *)
(* One row of the `orders` table per order channel, the Slack messages     *)
(* that carry buttons, and one action per handler.  A handler is one       *)
(* atomic step: it reads the row, writes it through update_order and       *)
(* posts its messages.                                                     *)
(***************************************************************************)
EXTENDS Integers, Sequences, FiniteSets, TLC

\* ------------------------------------------------------------------ bounds
\* Largest field value: restaurant names are the strings 1..MaxVal, times
\* the timestamps 1..MaxVal.
MaxVal == 1
\* Number of events handled in one behaviour.
MaxEvents == 5
\* Number of failures of Slack, the store or the backend in one behaviour.
MaxFaults == 1
\* Number of events handled in one long run.
MaxLongEvents == 5
\* Number of events handled in one late run.
MaxLateEvents == 5
\* Number of events handled in one run with the main conversation.
MaxMainEvents == 4
\* Number of handlers started in one run in which handlers interleave.
MaxRaceEvents == 4
\* Number of events handled in one run with two orders.
MaxPairEvents == 4
\* Largest number of time candidates found in one answer of the backend.
MaxCandidates == 3
\* Number of events handled in one run of a user who answers every prompt.
MaxLiveEvents == 16

\* ------------------------------------------------------------------ values
\* Python's None / SQL NULL in a value column.
None == 0 - 1
\* The empty string, a non-null value that Python treats as false.
Empty == 0
\* A text that matches neither "%Y-%m-%d %H:%M" nor "%H:%M".
BadText == 0 - 2
\* NULL in the app_used column.
NoApp == "none"

\* The private channels create_channel can create.
OrderChannels == {"c1"}
\* The private channels of the runs with two orders.
PairChannels == {"c1", "c2"}
\* The conversation of the user with the bot, where the "Start New
\* Submission" button is: no order belongs to it.
MainConversation == "dm"
Conversations == PairChannels \cup {MainConversation}

Apps == {"uber", "doordash", "grubhub"}

Stages == <<"awaiting_app_selection", "awaiting_initial_screenshot",
            "verifying_initial_data", "awaiting_completion_screenshot",
            "verifying_completion_data", "collecting_missing_info",
            "completed">>

\* ORDER_STAGES with a 'next' entry that names no stage.
ORDER_STAGES_next_misnamed(stage) ==
    CASE stage = "awaiting_app_selection"         -> "awaiting_initial_screenshot"
      [] stage = "awaiting_initial_screenshot"    -> "verifying_initial_data"
      [] stage = "verifying_initial_data"         -> "awaiting_completion"
      [] stage = "awaiting_completion_screenshot" -> "verifying_completion_data"
      [] stage = "verifying_completion_data"      -> "collecting_missing_info"
      [] stage = "collecting_missing_info"        -> "completed"
      [] OTHER                                    -> "none"

\* ORDER_STAGES[stage]['next']; "none" where the dictionary has no entry.
ORDER_STAGES_next(stage) ==
    CASE stage = "awaiting_app_selection"         -> "awaiting_initial_screenshot"
      [] stage = "awaiting_initial_screenshot"    -> "verifying_initial_data"
      [] stage = "verifying_initial_data"         -> "awaiting_completion_screenshot"
      [] stage = "awaiting_completion_screenshot" -> "verifying_completion_data"
      [] stage = "verifying_completion_data"      -> "collecting_missing_info"
      [] stage = "collecting_missing_info"        -> "completed"
      [] OTHER                                    -> "none"

\* Whether ORDER_STAGES[stage]['prompt'] is a text (not None, not absent).
ORDER_STAGES_prompt(stage) ==
    stage \in {"awaiting_app_selection", "awaiting_initial_screenshot",
               "awaiting_completion_screenshot", "collecting_missing_info"}

\* The (field, flag) pairs of get_next_unverified_field, in its order.
verification_order ==
    << <<"restaurant_name", "is_restaurant_name_verified">>,
       <<"order_placement_time", "is_order_placement_time_verified">>,
       <<"earliest_estimated_arrival_time", "is_earliest_estimated_arrival_time_verified">>,
       <<"latest_estimated_arrival_time", "is_latest_estimated_arrival_time_verified">>,
       <<"order_completion_time", "is_order_completion_time_verified">>,
       <<"restaurant_address", "is_restaurant_address_verified">> >>

\* The (field, flag) pairs of check_for_missing_info, in its order.
required_fields == SubSeq(verification_order, 1, 5)

Fields == {verification_order[i][1] : i \in 1..Len(verification_order)}
Flags == {verification_order[i][2] : i \in 1..Len(verification_order)}

\* f"is_{field}_verified"
FlagOf(field) ==
    verification_order[CHOOSE i \in 1..Len(verification_order) :
                           verification_order[i][1] = field][2]

IsTimeField(field) ==
    field \in {"order_placement_time", "earliest_estimated_arrival_time",
               "latest_estimated_arrival_time", "order_completion_time"}

\* The columns of the orders table that the workflow reads or writes.
Columns == {"status", "app_used", "placement_screenshot_path",
            "completion_screenshot_path"} \cup Fields \cup Flags

\* The row create_order inserts: status 'awaiting_app_selection', every other
\* column at its default.
NewOrder ==
    [k \in Columns |->
        IF k = "status" THEN "awaiting_app_selection"
        ELSE IF k = "app_used" THEN NoApp
        ELSE IF k \in Flags THEN FALSE
        ELSE None]

\* Python truth of a column value: None, "" and 0 are false.
Truthy(v) == v # None /\ v # Empty

\* ------------------------------------------------------------------ store
\* UPDATE orders SET <updates> applied to one row.
ApplyUpdates(row, updates) ==
    [k \in Columns |-> IF k \in DOMAIN updates THEN updates[k] ELSE row[k]]

\* update_order whose UPDATE has no WHERE clause: every row is written.
update_order_everyRow(table, channel_id, updates, dbOk) ==
    LET valid_updates == [k \in (DOMAIN updates) \cap Columns |-> updates[k]]
        written == [c \in DOMAIN table |-> ApplyUpdates(table[c], valid_updates)]
    IN  IF DOMAIN updates = {} THEN [ok |-> FALSE, table |-> table, calls |-> 0]
        ELSE IF ~dbOk \/ DOMAIN valid_updates = {}
             THEN [ok |-> FALSE, table |-> table, calls |-> 1]
        ELSE [ok |-> written # table, table |-> written, calls |-> 1]

\* update_order that sends every key to the store: a key that is no column
\* makes the statement fail, nothing is written and False returned.
update_order_strictKeys(table, channel_id, updates, dbOk) ==
    LET found == channel_id \in DOMAIN table
        written == ApplyUpdates(table[channel_id], updates)
    IN  IF DOMAIN updates = {} THEN [ok |-> FALSE, table |-> table, calls |-> 0]
        ELSE IF ~dbOk \/ ~(DOMAIN updates \subseteq Columns)
             THEN [ok |-> FALSE, table |-> table, calls |-> 1]
        ELSE IF found /\ written # table[channel_id]
             THEN [ok |-> TRUE, table |-> [table EXCEPT ![channel_id] = written],
                   calls |-> 1]
             ELSE [ok |-> FALSE, table |-> table, calls |-> 1]

\* update_order whose cursor.rowcount counts the rows the WHERE clause found
\* (the connection flag FOUND_ROWS): an update that leaves the row as it was
\* returns True.
update_order_foundRows(table, channel_id, updates, dbOk) ==
    LET valid_updates == [k \in (DOMAIN updates) \cap Columns |-> updates[k]]
        found == channel_id \in DOMAIN table
        written == ApplyUpdates(table[channel_id], valid_updates)
    IN  IF DOMAIN updates = {} THEN [ok |-> FALSE, table |-> table, calls |-> 0]
        ELSE IF ~dbOk THEN [ok |-> FALSE, table |-> table, calls |-> 1]
        ELSE IF DOMAIN valid_updates = {} THEN [ok |-> FALSE, table |-> table, calls |-> 1]
        ELSE IF found
             THEN [ok |-> TRUE, table |-> [table EXCEPT ![channel_id] = written],
                   calls |-> 1]
             ELSE [ok |-> FALSE, table |-> table, calls |-> 1]

\* update_order with the failure coming after the commit: the row is written
\* and False returned.
update_order_lateFailure(table, channel_id, updates, dbOk) ==
    LET valid_updates == [k \in (DOMAIN updates) \cap Columns |-> updates[k]]
        found == channel_id \in DOMAIN table
        written == ApplyUpdates(table[channel_id], valid_updates)
    IN  IF DOMAIN updates = {} THEN [ok |-> FALSE, table |-> table, calls |-> 0]
        ELSE IF DOMAIN valid_updates = {} THEN [ok |-> FALSE, table |-> table, calls |-> 1]
        ELSE IF found /\ written # table[channel_id]
             THEN [ok |-> dbOk, table |-> [table EXCEPT ![channel_id] = written],
                   calls |-> 1]
             ELSE [ok |-> FALSE, table |-> table, calls |-> 1]

\* update_order: `table` maps each channel that has a row to its row; dbOk is
\* false when the connection or the statement raises.  cursor.rowcount counts
\* the rows the UPDATE changed (MySQL's default affected-rows count), so an
\* update that leaves the row as it was returns False.  `calls` counts the
\* statements sent to the store.
update_order(table, channel_id, updates, dbOk) ==
    LET valid_updates == [k \in (DOMAIN updates) \cap Columns |-> updates[k]]
        found == channel_id \in DOMAIN table
        written == ApplyUpdates(table[channel_id], valid_updates)
    IN  IF DOMAIN updates = {} THEN [ok |-> FALSE, table |-> table, calls |-> 0]
        ELSE IF ~dbOk THEN [ok |-> FALSE, table |-> table, calls |-> 1]
        ELSE IF DOMAIN valid_updates = {} THEN [ok |-> FALSE, table |-> table, calls |-> 1]
        ELSE IF found /\ written # table[channel_id]
             THEN [ok |-> TRUE, table |-> [table EXCEPT ![channel_id] = written],
                   calls |-> 1]
             ELSE [ok |-> FALSE, table |-> table, calls |-> 1]

\* ------------------------------------------------------------------ messages
\* A posted message is a pair <<kind, argument>>.  The kinds "select_app",
\* "restart", "verify", "correct" and "missing" carry buttons.
Text(t) == <<"text", t>>
NoField == "none"
CompleteText == Text("Thank you! Your order submission is complete.")
TerminalText == Text(":tada: Thank you! Your order submission is complete.")

\* ------------------------------------------------------------------ helpers
Min(S) == CHOOSE x \in S : \A y \in S : x <= y

\* get_next_unverified_field without the test of the value.
get_next_unverified_field_anyValue(order) ==
    LET hits == {i \in 1..Len(verification_order) : ~order[verification_order[i][2]]}
    IN  IF hits = {} THEN <<NoField, NoField>> ELSE verification_order[Min(hits)]

\* get_next_unverified_field testing the value's truth as
\* check_for_missing_info does, in place of `is not None`.
get_next_unverified_field_truthy(order) ==
    LET hits == {i \in 1..Len(verification_order) :
                    /\ Truthy(order[verification_order[i][1]])
                    /\ ~order[verification_order[i][2]]}
    IN  IF hits = {} THEN <<NoField, NoField>> ELSE verification_order[Min(hits)]

get_next_unverified_field(order) ==
    LET hits == {i \in 1..Len(verification_order) :
                    /\ order[verification_order[i][1]] # None
                    /\ ~order[verification_order[i][2]]}
    IN  IF hits = {} THEN <<NoField, NoField>> ELSE verification_order[Min(hits)]

\* The list missing_fields of check_for_missing_info.
missing_fields(order) ==
    SelectSeq(required_fields, LAMBDA p : ~Truthy(order[p[1]]) /\ ~order[p[2]])

\* check_for_missing_info: returns the table, the messages posted and the
\* number of statements sent to the store.
check_for_missing_info(table, channel_id, dbOk) ==
    IF channel_id \notin DOMAIN table
    THEN [table |-> table, out |-> <<Text("Order not found")>>, calls |-> 0]
    ELSE
    LET missing == missing_fields(table[channel_id])
    IN  IF Len(missing) > 0
        THEN [table |-> table,
              out |-> <<Text("We're missing some information:")>>
                      \o [i \in 1..Len(missing) |-> <<"missing", missing[i][1]>>],
              calls |-> 0]
        ELSE LET done == update_order(table, channel_id, "status" :> "completed", dbOk)
             IN  [table |-> done.table,
                  out |-> IF done.ok THEN <<CompleteText>> ELSE << >>,
                  calls |-> done.calls]

\* handle_stage_completion that moves to the next stage without running
\* check_for_missing_info.
handle_stage_completion_noBackfill(table, channel_id, order, dbStage, dbDone) ==
    LET next_stage == ORDER_STAGES_next(order["status"])
    IN  IF next_stage = "none"
        THEN [table |-> table, out |-> <<TerminalText>>, calls |-> 0]
        ELSE
        LET moved == update_order(table, channel_id, "status" :> next_stage, dbStage)
            shown == <<<<"progress", next_stage>>>>
                     \o (IF ORDER_STAGES_prompt(next_stage)
                         THEN <<<<"next_step", next_stage>>>> ELSE << >>)
        IN  IF ~moved.ok THEN [table |-> moved.table, out |-> << >>, calls |-> moved.calls]
            ELSE [table |-> moved.table, out |-> shown, calls |-> moved.calls]

\* handle_stage_completion(order, client): `order` is the row its caller read.
handle_stage_completion(table, channel_id, order, dbStage, dbDone) ==
    LET next_stage == ORDER_STAGES_next(order["status"])
    IN  IF next_stage = "none"
        THEN [table |-> table, out |-> <<TerminalText>>, calls |-> 0]
        ELSE
        LET moved == update_order(table, channel_id, "status" :> next_stage, dbStage)
            shown == <<<<"progress", next_stage>>>>
                     \o (IF ORDER_STAGES_prompt(next_stage)
                         THEN <<<<"next_step", next_stage>>>> ELSE << >>)
        IN  IF ~moved.ok THEN [table |-> moved.table, out |-> << >>, calls |-> moved.calls]
            ELSE IF next_stage = "collecting_missing_info"
            THEN LET missing == check_for_missing_info(moved.table, channel_id, dbDone)
                 IN  [table |-> missing.table, out |-> shown \o missing.out,
                      calls |-> moved.calls + missing.calls]
            ELSE [table |-> moved.table, out |-> shown, calls |-> moved.calls]

\* start_field_verification that posts nothing and leaves the stage when no
\* field is left to verify.
start_field_verification_noCompletion(table, channel_id, dbStage, dbDone) ==
    IF channel_id \notin DOMAIN table
    THEN [table |-> table, out |-> <<Text("No active order")>>, calls |-> 0]
    ELSE
    LET order == table[channel_id]
        next == get_next_unverified_field(order)
    IN  IF next[1] = NoField
        THEN [table |-> table, out |-> << >>, calls |-> 0]
        ELSE [table |-> table, out |-> <<<<"verify", next[1]>>>>, calls |-> 0]

\* start_field_verification (the definition at the end of bot.py, which
\* replaces the earlier one of the same name).
start_field_verification(table, channel_id, dbStage, dbDone) ==
    IF channel_id \notin DOMAIN table
    THEN [table |-> table, out |-> <<Text("No active order")>>, calls |-> 0]
    ELSE
    LET order == table[channel_id]
        next == get_next_unverified_field(order)
    IN  IF next[1] = NoField
        THEN handle_stage_completion(table, channel_id, order, dbStage, dbDone)
        ELSE [table |-> table, out |-> <<<<"verify", next[1]>>>>, calls |-> 0]

\* ------------------------------------------------------------------ uploads
allowed_mimetypes == {"image/png", "image/jpeg", "image/jpg"}
max_size_mb == 5

\* The uploaded files tried: [mimetype, size in bytes].
Files ==
    { [mimetype |-> "image/png",  size |-> max_size_mb * 1024 * 1024],
      [mimetype |-> "image/jpeg", size |-> 1024],
      [mimetype |-> "image/jpg",  size |-> 2048],
      [mimetype |-> "image/gif",  size |-> 1024],
      [mimetype |-> "application/pdf", size |-> 1024],
      [mimetype |-> "image/png",  size |-> max_size_mb * 1024 * 1024 + 1],
      [mimetype |-> "image/jpeg", size |-> 6 * 1024 * 1024] }
NoFile == [mimetype |-> "none", size |-> 0]

\* "image" in file['mimetype'], the test of handle_message and of
\* handle_file_shared_events before they call process_image.
IsImage(file) ==
    file.mimetype \in {"image/png", "image/jpeg", "image/jpg", "image/gif"}

\* process_image without its size check.
FileAccepted_anySize(file) ==
    file.mimetype \in allowed_mimetypes

\* The two checks at the top of process_image.
FileAccepted(file) ==
    /\ file.mimetype \in allowed_mimetypes
    /\ ~(file.size > max_size_mb * 1024 * 1024)

\* The message of the check that turned the file away.
RejectText(file) ==
    IF file.mimetype \notin allowed_mimetypes
    THEN Text("Only PNG/JPEG images under 5MB are allowed.")
    ELSE Text("Image too large. Max size: 5MB.")

NameValues == {None, Empty} \cup (1..MaxVal)
TimeValues == {None} \cup (1..MaxVal)
AddressValues == {None, 1}

AllNone == [f \in Fields |-> None]

\* The dictionary of extracted values with the given entries.
Extracted(name, address, placement, earliest, latest, completion) ==
    ("restaurant_name" :> name) @@ ("restaurant_address" :> address)
    @@ ("order_placement_time" :> placement)
    @@ ("earliest_estimated_arrival_time" :> earliest)
    @@ ("latest_estimated_arrival_time" :> latest)
    @@ ("order_completion_time" :> completion)

\* What the model backend answers for one image: `raises` when a call to it
\* (or opening the image) raises, else the values parsed from its answers.
\* The completion time is asked for only in stage awaiting_arrival_time, the
\* placement and window times only in stage awaiting_placement_time.
BackendAnswers(image_stage) ==
    {[raises |-> TRUE, fields |-> AllNone]}
    \cup
    (IF image_stage = "awaiting_arrival_time"
     THEN { [raises |-> FALSE, fields |-> Extracted(n, a, None, None, None, t)] :
              n \in NameValues, a \in AddressValues, t \in TimeValues }
     ELSE { [raises |-> FALSE, fields |-> Extracted(n, a, p, e, l, None)] :
              n \in NameValues, a \in AddressValues,
              p \in TimeValues, e \in TimeValues, l \in TimeValues })

\* gemini_process_image: every exception is caught and answered with the
\* all-None dictionary.
gemini_process_image(answer, image_stage) ==
    IF answer.raises THEN AllNone ELSE answer.fields

\* process_image writing the extracted address along with the other values.
ImageUpdates_withAddress(status, filepath, extracted) ==
    LET stage == IF status = "awaiting_initial_screenshot" THEN "placement"
                 ELSE IF status = "awaiting_completion_screenshot" THEN "completion"
                 ELSE "other"
    IN  IF stage = "placement"
        THEN ("status" :> "verifying_initial_data")
             @@ ("placement_screenshot_path" :> filepath)
             @@ ("restaurant_name" :> extracted["restaurant_name"])
             @@ ("restaurant_address" :> extracted["restaurant_address"])
             @@ ("order_placement_time" :> extracted["order_placement_time"])
             @@ ("earliest_estimated_arrival_time" :>
                     extracted["earliest_estimated_arrival_time"])
             @@ ("latest_estimated_arrival_time" :>
                     extracted["latest_estimated_arrival_time"])
        ELSE ("status" :> "verifying_completion_data")
             @@ ("completion_screenshot_path" :> filepath)
             @@ ("restaurant_address" :> extracted["restaurant_address"])
             @@ ("order_completion_time" :> extracted["order_completion_time"])

\* The `updates` dictionary process_image builds from the row's status.
ImageUpdates(status, filepath, extracted) ==
    LET stage == IF status = "awaiting_initial_screenshot" THEN "placement"
                 ELSE IF status = "awaiting_completion_screenshot" THEN "completion"
                 ELSE "other"
    IN  IF stage = "placement"
        THEN ("status" :> "verifying_initial_data")
             @@ ("placement_screenshot_path" :> filepath)
             @@ ("restaurant_name" :> extracted["restaurant_name"])
             @@ ("order_placement_time" :> extracted["order_placement_time"])
             @@ ("earliest_estimated_arrival_time" :>
                     extracted["earliest_estimated_arrival_time"])
             @@ ("latest_estimated_arrival_time" :>
                     extracted["latest_estimated_arrival_time"])
        ELSE ("status" :> "verifying_completion_data")
             @@ ("completion_screenshot_path" :> filepath)
             @@ ("order_completion_time" :> extracted["order_completion_time"])

\* filepath = order id, stage and the time of the upload: a path later than
\* the paths the row holds (None is -1).
NextPath(order) ==
    IF order["placement_screenshot_path"] > order["completion_screenshot_path"]
    THEN order["placement_screenshot_path"] + 1
    ELSE IF order["completion_screenshot_path"] = None THEN 1
    ELSE order["completion_screenshot_path"] + 1

\* image_stage as process_image picks it from the row's status.
ImageStage(status) ==
    IF status = "awaiting_completion_screenshot"
    THEN "awaiting_arrival_time" ELSE "awaiting_placement_time"

\* process_image once the file is saved: extraction, update, verification.
\* Returns the table, the messages, the branch taken and the number of
\* statements sent to the store.
process_image(table, channel_id, answer, filepath, dbUpd, dbStage, dbDone) ==
    LET order == table[channel_id]
        extracted == gemini_process_image(answer, ImageStage(order["status"]))
        updates == ImageUpdates(order["status"], filepath, extracted)
        upd == update_order(table, channel_id, updates, dbUpd)
    IN  IF upd.ok
        THEN LET ver == start_field_verification(upd.table, channel_id, dbStage, dbDone)
             IN  [table |-> ver.table, out |-> ver.out, res |-> "updated",
                  calls |-> upd.calls + ver.calls]
        ELSE [table |-> upd.table,
              out |-> <<Text("Error processing image: Failed to update order in database")>>,
              res |-> "update_failed", calls |-> upd.calls]

\* ------------------------------------------------------------------ user text
\* What the user can type in an input block: nothing (Slack sends None), a
\* text that is no time, or the text of the value t in 1..MaxVal.
UserTexts == {None, BadText} \cup (1..MaxVal)

\* parse_human_time_to_unix that answers a text it cannot read with a
\* default time instead of None.
parse_human_time_to_unix_lenient(time_str) ==
    IF time_str \in 1..MaxVal THEN time_str ELSE 1

\* parse_human_time_to_unix on a text: the text of t gives the timestamp t,
\* any other text None.  (None itself makes strptime raise TypeError, which
\* the function does not catch: see handle_user_input.)
parse_human_time_to_unix(time_str) ==
    IF time_str \in 1..MaxVal THEN time_str ELSE None

\* ------------------------------------------------------------------ time texts
\* A date is the number of its day, counted from 1970-01-01; a timestamp
\* the number of seconds from the start of that day to the minute named, in
\* the time zone of the process.
Timestamp(date, hour, minute) == ((date * 24 + hour) * 60 + minute) * 60

\* 1900-01-01, the date strptime gives when the format has none.
Day1900 == 0 - 25567

\* The current dates tried.
Dates == {20175, 20176}

\* The texts a user types for a time, by their form: "YYYY-MM-DD HH:MM",
\* "HH:MM", "HH:MM:SS", "H:MM PM", "YYYY-MM-DD", with the numbers written
\* for the hour and the minute (24 is no hour, 60 no minute).
TimeTextHours == {0, 9, 14, 23, 24}
TimeTextMinutes == {0, 30, 59, 60}
TimeTexts ==
    {[form |-> f, date |-> d, hour |-> h, minute |-> m] :
        f \in {"date_time", "date"}, d \in Dates, h \in TimeTextHours,
        m \in TimeTextMinutes}
    \cup
    {[form |-> f, date |-> 0, hour |-> h, minute |-> m] :
        f \in {"time", "time_seconds", "time_pm"}, h \in TimeTextHours,
        m \in TimeTextMinutes}

\* datetime.strptime(time_str, "%Y-%m-%d %H:%M"): ok is false where it
\* raises ValueError.
strptime_Ymd_HM(time_str) ==
    [ok |-> time_str.form = "date_time" /\ time_str.hour \in 0..23
            /\ time_str.minute \in 0..59,
     date |-> time_str.date, hour |-> time_str.hour, minute |-> time_str.minute]

\* datetime.strptime(time_str, "%H:%M"): the date is 1900-01-01.
strptime_HM(time_str) ==
    [ok |-> time_str.form = "time" /\ time_str.hour \in 0..23
            /\ time_str.minute \in 0..59,
     date |-> Day1900, hour |-> time_str.hour, minute |-> time_str.minute]

\* parse_human_time_to_unix without its second attempt: a text with no date
\* gives None.
parse_human_time_to_unix_at_fullOnly(time_str, today) ==
    LET full == strptime_Ymd_HM(time_str)
    IN  IF full.ok THEN Timestamp(full.date, full.hour, full.minute) ELSE None

\* parse_human_time_to_unix on the text time_str when datetime.now() is a
\* time of the day `today`.
parse_human_time_to_unix_at(time_str, today) ==
    LET full == strptime_Ymd_HM(time_str)
        bare == strptime_HM(time_str)
    IN  IF full.ok THEN Timestamp(full.date, full.hour, full.minute)
        ELSE IF bare.ok
             THEN LET dt == [bare EXCEPT !.date = today]
                  IN  Timestamp(dt.date, dt.hour, dt.minute)
        ELSE None

\* ------------------------------------------------------------------ extracted times
\* A time in the backend's answer: the hour and the minute as written, the
\* designator after them as written ("none" for a bare time) and whether a
\* space stands before the designator.
TimeStringHours == {0, 1, 8, 9, 11, 12, 13, 20, 24}
TimeStringMinutes == {0, 17}
Designators == {"AM", "PM", "pm"}
TimeStrings ==
    {[hour |-> h, minute |-> m, designator |-> d, space |-> sp] :
        h \in TimeStringHours, m \in TimeStringMinutes, d \in Designators,
        sp \in BOOLEAN}
    \cup
    {[hour |-> h, minute |-> m, designator |-> "none", space |-> FALSE] :
        h \in TimeStringHours, m \in TimeStringMinutes}

\* str.upper() and str.lower() of a designator.
Upper(designator) ==
    CASE designator \in {"AM", "am"} -> "AM"
      [] designator \in {"PM", "pm"} -> "PM"
      [] OTHER -> "none"
Lower(designator) ==
    CASE designator \in {"AM", "am"} -> "am"
      [] designator \in {"PM", "pm"} -> "pm"
      [] OTHER -> "none"

\* strptime with "%I:%M %p" that takes the hour as written, whatever the
\* designator.
strptime_I_M_p_asWritten(time_string, spaced) ==
    [ok |-> /\ time_string.designator # "none"
            /\ time_string.space = spaced
            /\ time_string.hour \in 1..12
            /\ time_string.minute \in 0..59,
     hour |-> time_string.hour, minute |-> time_string.minute]

\* datetime.strptime(time_string, "%I:%M %p") (spaced) and
\* datetime.strptime(time_string, "%I:%M%p") (not spaced): %I reads an hour
\* of 1..12, %p the designator in either case; white space in the format
\* stands for at least one white space in the string.
strptime_I_M_p(time_string, spaced) ==
    [ok |-> /\ time_string.designator # "none"
            /\ time_string.space = spaced
            /\ time_string.hour \in 1..12
            /\ time_string.minute \in 0..59,
     hour |-> (time_string.hour % 12)
              + (IF Upper(time_string.designator) = "PM" THEN 12 ELSE 0),
     minute |-> time_string.minute]

\* datetime.strptime(time_string, "%H:%M").
strptime_H_M(time_string) ==
    [ok |-> /\ time_string.designator = "none"
            /\ time_string.hour \in 0..23
            /\ time_string.minute \in 0..59,
     hour |-> time_string.hour, minute |-> time_string.minute]

\* convert_to_unix(time_string, am_pm_context) when datetime.now() is a
\* time of the day `today`; am_pm_context is "none" for None.  Of
\* formats_to_try, the four with a date match no string without one.  The
\* retry with the hint is for a string of the shape H:MM or HH:MM that no
\* format matched.  A time without a date comes out of strptime on
\* 1900-01-01, which the three replacements turn into the current date.
convert_to_unix(time_string, am_pm_context, today) ==
    LET first == strptime_I_M_p(time_string, TRUE)
        second == strptime_I_M_p(time_string, FALSE)
        third == strptime_H_M(time_string)
        hinted == strptime_I_M_p([time_string EXCEPT !.designator = am_pm_context,
                                                     !.space = TRUE], TRUE)
    IN  IF first.ok THEN Timestamp(today, first.hour, first.minute)
        ELSE IF second.ok THEN Timestamp(today, second.hour, second.minute)
        ELSE IF third.ok THEN Timestamp(today, third.hour, third.minute)
        ELSE IF am_pm_context # "none" /\ time_string.designator = "none" /\ hinted.ok
             THEN Timestamp(today, hinted.hour, hinted.minute)
        ELSE None

\* No such line in the backend's answer.
NoLine == [hour |-> 0, minute |-> 0, designator |-> "missing", space |-> FALSE]

\* extract_initial_times on an answer whose "Order placement time:" line
\* holds `placement` and whose "Delivery window:" line holds `earliest` and
\* `latest` (NoLine: the regular expression finds no such line).
extract_initial_times(placement, earliest, latest, today) ==
    ("order_placement_time" :>
        (IF placement = NoLine THEN None ELSE convert_to_unix(placement, "none", today)))
    @@ ("earliest_estimated_arrival_time" :>
        (IF earliest = NoLine \/ latest = NoLine THEN None
         ELSE convert_to_unix(earliest, "none", today)))
    @@ ("latest_estimated_arrival_time" :>
        (IF earliest = NoLine \/ latest = NoLine THEN None
         ELSE convert_to_unix(latest, "none", today)))

\* normalized_time of process_gemini_response: the string is put in lower
\* case first, so the substitution of "\s*[AP]M", which has no IGNORECASE,
\* finds nothing to remove.
normalized_time(time_str) == [time_str EXCEPT !.designator = Lower(@)]

\* unique_times: the candidates whose normalized_time was not seen before.
RECURSIVE unique_times(_)
unique_times(extracted_times) ==
    IF extracted_times = << >> THEN << >>
    ELSE LET front == unique_times(SubSeq(extracted_times, 1, Len(extracted_times) - 1))
             time_str == extracted_times[Len(extracted_times)]
         IN  IF \E i \in 1..Len(front) :
                    normalized_time(front[i]) = normalized_time(time_str)
             THEN front ELSE Append(front, time_str)

\* am_pm_counts: the designators among the kept candidates, found with
\* IGNORECASE and counted in upper case.
am_pm_counts(kept) ==
    [AM |-> Cardinality({i \in 1..Len(kept) : Upper(kept[i].designator) = "AM"}),
     PM |-> Cardinality({i \in 1..Len(kept) : Upper(kept[i].designator) = "PM"})]

\* dominant_am_pm with a tie going to AM.
dominant_am_pm_tieAM(counts) ==
    IF counts.AM >= counts.PM THEN "AM" ELSE "PM"

\* dominant_am_pm; "none" for None.
dominant_am_pm(counts) ==
    IF counts.AM > counts.PM THEN "AM"
    ELSE IF counts.PM > counts.AM THEN "PM"
    ELSE "none"

\* process_gemini_response from the list extracted_times on: the kept
\* candidates, the hint, and time_data as the function from the positions
\* i whose conversion gave a timestamp to that timestamp (key time_<i>).  A
\* candidate counts as bare when no upper-case AM or PM follows its time
\* (the test of line 305 has no IGNORECASE).
process_gemini_response(extracted_times, today) ==
    LET kept == unique_times(extracted_times)
        hint == dominant_am_pm(am_pm_counts(kept))
        converted == [i \in 1..Len(kept) |->
                         IF kept[i].designator \notin {"AM", "PM"}
                         THEN convert_to_unix(kept[i], hint, today)
                         ELSE convert_to_unix(kept[i], "none", today)]
    IN  [unique_times |-> kept,
         dominant_am_pm |-> hint,
         time_data |-> [i \in {j \in 1..Len(kept) : converted[j] # None} |-> converted[i]]]

\* ------------------------------------------------------------------ state
VARIABLES
    channels,   \* the private channels created so far
    members,    \* the private channels the user has been invited to
    orders,     \* the orders table: channel -> row, for the channels with a row
    prompts,    \* per channel, the posted messages whose buttons are live
    out,        \* the messages posted while handling the last event
    ev,         \* the last event handled and the branch it took
    events,     \* number of events handled
    faults,     \* number of failures of Slack, the store or the backend so far
    limit,      \* the run's bounds on events and on faults
    threads,    \* per listener thread, the handler it runs and what it read
    calc        \* a call of one of the functions on its own: input and result

vars == <<channels, members, orders, prompts, out, ev, events, faults, limit,
          threads, calc>>

\* The listener threads of the runs in which handlers interleave.
Threads == {"t1", "t2"}
\* A thread that runs no handler.
Idle == [pc |-> "idle"]
\* No function is called on its own.
NoCalc == [fn |-> "none", done |-> FALSE]

PromptKinds == {"select_app", "restart", "verify", "correct", "missing"}

\* The messages of a handler's output that carry buttons.
Buttons(msgs) == {msgs[i] : i \in {j \in 1..Len(msgs) : msgs[j][1] \in PromptKinds}}

\* status of the row of channel c, "none" without a row.
StatusOf(table, c) == IF c \in DOMAIN table THEN table[c]["status"] ELSE "none"

\* The record of an event: the handler, the channel, the field or app it
\* names, a tag (the kind of input prompt; for an upload, what the extraction
\* gave), the file uploaded, the text submitted, the status before it and
\* the branch taken.
Event(kind, c, arg, tag, res) ==
    [kind |-> kind, c |-> c, arg |-> arg, tag |-> tag, file |-> NoFile, value |-> None,
     pre |-> StatusOf(orders, c), res |-> res]

\* The record of a Submit on an input prompt holding `value`.
Input(c, field, kind, value, res) ==
    [Event("input", c, field, kind, res) EXCEPT !.value = value]

\* The record of an upload of `file`.
Upload(c, file, tag, res) == [Event("upload", c, "none", tag, res) EXCEPT !.file = file]

\* Nothing has happened: no channel, no order, no message.
StartWith(maxEvents, maxFaults) ==
    /\ channels = {}
    /\ members = {}
    /\ orders = << >>
    /\ prompts = [c \in Conversations |-> {}]
    /\ out = << >>
    /\ ev = [kind |-> "init", c |-> "none", arg |-> "none", tag |-> "none",
             file |-> NoFile, value |-> None, pre |-> "none", res |-> "none"]
    /\ events = 0
    /\ faults = 0
    /\ limit = [events |-> maxEvents, faults |-> maxFaults]
    /\ threads = [t \in Threads |-> Idle]

InitWith(maxEvents, maxFaults) ==
    /\ StartWith(maxEvents, maxFaults)
    /\ calc = NoCalc

Init == InitWith(MaxEvents, MaxFaults)

\* What every handler does to the bookkeeping: the messages it posted, the
\* buttons that came live with them and those it took away, and the event
\* record.  `failed` tells whether Slack, the store or the backend failed.
Handled(c, msgs, removed, failed, event) ==
    /\ failed => faults < limit.faults
    /\ out' = msgs
    /\ prompts' = [prompts EXCEPT ![c] = (@ \ removed) \cup Buttons(msgs)]
    /\ ev' = event
    /\ events' = events + 1
    /\ faults' = IF failed THEN faults + 1 ELSE faults
    /\ UNCHANGED <<limit, threads, calc>>

\* Another event can be handled within the run's bound.
MoreEvents == events < limit.events

\* The values of okWrites to try: a failure only within the run's bound.
OkWrites(calls) == IF faults < limit.faults THEN (0..(calls - 1)) \cup {3} ELSE {3}

\* okWrites is the number of store statements that succeed before the store
\* fails (3 or more: none fails in a handler, which sends at most 3); a
\* handler that sent `calls` statements met the failure iff calls > okWrites.
StoreFailed(okWrites, calls) == calls > okWrites

SelectPrompt == <<"select_app", "none">>
RestartPrompt == <<"restart", "none">>

\* ------------------------------------------------------------------ actions
\* handle_start_order_submission with create_channel and create_order: the
\* user presses "Start New Submission" in the main conversation.
handle_start_order_submission(c) ==
    /\ MoreEvents
    /\ c \notin channels
    /\ \E chanOk, orderOk, inviteOk \in BOOLEAN :
       IF ~chanOk
       THEN \* conversations_create raises SlackApiError: (None, None)
            /\ orderOk /\ inviteOk
            /\ UNCHANGED <<channels, members, orders>>
            /\ Handled(c, << >>, {}, TRUE, Event("start", c, "none", "none", "no_channel"))
       ELSE IF ~orderOk
       THEN \* create_order returns None: create_channel raises Exception,
            \* which nothing catches; the channel stays
            /\ inviteOk
            /\ channels' = channels \cup {c}
            /\ UNCHANGED <<members, orders>>
            /\ Handled(c, << >>, {}, TRUE, Event("start", c, "none", "none", "no_order"))
       ELSE IF ~inviteOk
       THEN \* conversations_invite raises SlackApiError: (None, None)
            /\ channels' = channels \cup {c}
            /\ orders' = (c :> NewOrder) @@ orders
            /\ UNCHANGED members
            /\ Handled(c, << >>, {}, TRUE, Event("start", c, "none", "none", "no_invite"))
       ELSE /\ channels' = channels \cup {c}
            /\ orders' = (c :> NewOrder) @@ orders
            /\ members' = members \cup {c}
            /\ Handled(c, <<SelectPrompt, Text("Created private channel for your order")>>,
                       {}, FALSE, Event("start", c, "none", "none", "created"))

\* handle_app_selection storing the display name of the app.
AppUpdates_displayName(app_used) ==
    ("app_used" :> (CASE app_used = "uber" -> "Uber Eats"
                      [] app_used = "doordash" -> "DoorDash"
                      [] OTHER -> "Grubhub"))
    @@ ("status" :> "awaiting_initial_screenshot")

\* The `updates` dictionary of handle_app_selection.
AppUpdates(app_used) ==
    ("app_used" :> app_used) @@ ("status" :> "awaiting_initial_screenshot")

\* handle_app_selection (the three handlers select_app_uber, _doordash,
\* _grubhub): chat_update takes the buttons off the message first.
handle_app_selection(c, app_used) ==
    /\ MoreEvents
    /\ c \in members
    /\ SelectPrompt \in prompts[c]
    /\ UNCHANGED <<channels, members>>
    /\ \E okWrites \in OkWrites(1) :
       \E upd \in {update_order(orders, c, AppUpdates(app_used), okWrites >= 1)} :
           /\ orders' = upd.table
           /\ Handled(c,
                  IF upd.ok THEN <<<<"next_step", "awaiting_initial_screenshot">>>> ELSE << >>,
                  {SelectPrompt}, StoreFailed(okWrites, upd.calls),
                  Event("select_app", c, app_used, "none",
                        IF upd.ok THEN "updated" ELSE "update_failed"))

\* An upload that makes an order record for a conversation that has none.
file_upload_fabricating(c, file) ==
    /\ MoreEvents
    /\ c \in members \cup {MainConversation}
    /\ UNCHANGED <<channels, members>>
    /\ orders' = IF c \in DOMAIN orders THEN orders ELSE (c :> NewOrder) @@ orders
    /\ Handled(c, <<Text("Order not found")>>, {}, FALSE,
               Upload(c, file, "not_called", "no_order"))

\* An image arrives in channel c (handle_message with one file, or
\* handle_file_shared_events): the caller's test, then process_image from
\* its first line.
file_upload(c, file) ==
    /\ MoreEvents
    /\ c \in members \cup {MainConversation}
    /\ UNCHANGED <<channels, members>>
    /\ IF ~IsImage(file)
       THEN /\ UNCHANGED orders
            /\ Handled(c, <<Text("Please upload an image file")>>, {}, FALSE,
                       Upload(c, file, "not_called", "not_image"))
       ELSE IF ~FileAccepted(file)
       THEN /\ UNCHANGED orders
            /\ Handled(c, <<RejectText(file)>>, {}, FALSE,
                       Upload(c, file, "not_called", "bad_file"))
       ELSE IF c \notin DOMAIN orders
       THEN /\ UNCHANGED orders
            /\ Handled(c, <<Text("Order not found")>>, {}, FALSE,
                       Upload(c, file, "not_called", "no_order"))
       ELSE \E dlOk \in BOOLEAN :
            IF ~dlOk
            THEN \* files_info or the download raises
                 /\ UNCHANGED orders
                 /\ Handled(c, <<Text("Error processing image: Failed to download file from Slack")>>,
                            {}, TRUE, Upload(c, file, "not_called", "download_failed"))
            ELSE \E answer \in BackendAnswers(ImageStage(orders[c]["status"])),
                    okWrites \in OkWrites(3) :
                 \E r \in {process_image(orders, c, answer, NextPath(orders[c]),
                                 okWrites >= 1, okWrites >= 2, okWrites >= 3)} :
                   /\ okWrites < 3 => StoreFailed(okWrites, r.calls)
                   /\ ~(answer.raises /\ okWrites < 3)
                   /\ orders' = r.table
                   /\ Handled(c, r.out, {}, answer.raises \/ okWrites < 3,
                          Upload(c, file,
                                 IF answer.raises THEN "raised"
                                 ELSE IF answer.fields = AllNone THEN "all_null"
                                 ELSE "some",
                                 r.res))

\* handle_message with the text "restart".
handle_message_restart(c) ==
    /\ MoreEvents
    /\ c \in members \cup {MainConversation}
    /\ UNCHANGED <<channels, members, orders>>
    /\ IF c \in DOMAIN orders
       THEN Handled(c, <<RestartPrompt>>, {}, FALSE,
                    Event("restart_text", c, "none", "none", "asked"))
       ELSE Handled(c, <<Text("No active order to restart.")>>, {}, FALSE,
                    Event("restart_text", c, "none", "none", "no_order"))

\* A restart that clears the fields and the flags.
RestartUpdates_clearing ==
    ("status" :> "awaiting_app_selection")
    @@ [f \in Fields |-> None] @@ [g \in Flags |-> FALSE]

\* The `updates` dictionary of handle_restart_order.
RestartUpdates == "status" :> "awaiting_app_selection"

\* handle_restart_order: the "Yes, Restart" button, whose value is the channel.
handle_restart_order(c) ==
    /\ MoreEvents
    /\ c \in members
    /\ RestartPrompt \in prompts[c]
    /\ UNCHANGED <<channels, members>>
    /\ \E okWrites \in OkWrites(1) :
       \E upd \in {update_order(orders, c, RestartUpdates, okWrites >= 1)} :
           /\ orders' = upd.table
           /\ IF upd.ok
              THEN \* the buttons of this message have action_id "select_app",
                   \* for which no handler is registered
                   Handled(c, <<Text("Order has been restarted. Let's try again."),
                                Text("Order Restarted: Which delivery app did you use?")>>,
                           {}, FALSE, Event("restart", c, "none", "none", "updated"))
              ELSE Handled(c, <<Text("Sorry, I couldn't restart the order. Please try again.")>>,
                           {}, StoreFailed(okWrites, upd.calls),
                           Event("restart", c, "none", "none", "update_failed"))

\* handle_verification_yes: the Yes button of a verification prompt.
handle_verification_yes(c, field) ==
    /\ MoreEvents
    /\ c \in members
    /\ <<"verify", field>> \in prompts[c]
    /\ UNCHANGED <<channels, members>>
    /\ \E okWrites \in OkWrites(3) :
       \E upd \in {update_order(orders, c, FlagOf(field) :> TRUE, okWrites >= 1)} :
       IF upd.ok
       THEN \E ver \in {start_field_verification(upd.table, c, okWrites >= 2,
                                                 okWrites >= 3)} :
            /\ okWrites < 3 => StoreFailed(okWrites, upd.calls + ver.calls)
            /\ orders' = ver.table
            /\ Handled(c, ver.out, {<<"verify", field>>}, okWrites < 3,
                       Event("verify_yes", c, field, "none", "updated"))
       ELSE /\ okWrites \in {0, 3}
            /\ orders' = upd.table
            /\ Handled(c, << >>, {<<"verify", field>>}, okWrites < 3,
                       Event("verify_yes", c, field, "none", "update_failed"))

\* handle_verification_no that also clears the rejected value.
handle_verification_no_clearing(c, field) ==
    /\ MoreEvents
    /\ c \in members
    /\ <<"verify", field>> \in prompts[c]
    /\ UNCHANGED <<channels, members>>
    /\ orders' = update_order(orders, c, field :> None, TRUE).table
    /\ Handled(c, <<<<"correct", field>>>>, {<<"verify", field>>}, FALSE,
               Event("verify_no", c, field, "none", "asked"))

\* handle_verification_no: the No button of a verification prompt.
handle_verification_no(c, field) ==
    /\ MoreEvents
    /\ c \in members
    /\ <<"verify", field>> \in prompts[c]
    /\ UNCHANGED <<channels, members, orders>>
    /\ Handled(c, <<<<"correct", field>>>>, {<<"verify", field>>}, FALSE,
               Event("verify_no", c, field, "none", "asked"))

\* handle_user_input setting the flag on the correction path too.
InputUpdates_alwaysFlag(kind, field, value) ==
    LET stored == IF IsTimeField(field)
                  THEN parse_human_time_to_unix(value) ELSE value
    IN  (field :> stored) @@ (FlagOf(field) :> TRUE)

\* The `updates` dictionary handle_user_input builds from an accepted value.
InputUpdates(kind, field, value) ==
    LET stored == IF IsTimeField(field)
                  THEN parse_human_time_to_unix(value) ELSE value
    IN  IF kind = "missing"
        THEN (field :> stored) @@ (FlagOf(field) :> TRUE)
        ELSE (field :> stored)

\* handle_user_input: Submit on the input prompt whose block_id is
\* "<kind>_<field>", kind being "correct" or "missing".
handle_user_input(c, kind, field) ==
    /\ MoreEvents
    /\ c \in members
    /\ <<kind, field>> \in prompts[c]
    /\ UNCHANGED <<channels, members>>
    /\ \E value \in UserTexts :
       /\ ~IsTimeField(field) => value # BadText
       /\ IF IsTimeField(field) /\ value = None
          THEN \* strptime(None, ...) raises TypeError, caught by the handler
               /\ UNCHANGED orders
               /\ Handled(c, <<Text("Failed to update your information. Please try again.")>>,
                          {}, FALSE, Input(c, field, kind, value, "raised"))
          ELSE IF IsTimeField(field) /\ ~Truthy(parse_human_time_to_unix(value))
          THEN /\ UNCHANGED orders
               /\ Handled(c, <<Text("Invalid time format. Please use HH:MM (24-hour format)")>>,
                          {}, FALSE, Input(c, field, kind, value, "invalid_time"))
          ELSE \E okWrites \in OkWrites(3) :
               \E upd \in {update_order(orders, c, InputUpdates(kind, field, value),
                                       okWrites >= 1)} :
               IF upd.ok
               THEN \E nxt \in {IF kind = "missing"
                                THEN check_for_missing_info(upd.table, c, okWrites >= 2)
                                ELSE start_field_verification(upd.table, c, okWrites >= 2,
                                                              okWrites >= 3)} :
                    /\ okWrites < 3 => StoreFailed(okWrites, upd.calls + nxt.calls)
                    /\ orders' = nxt.table
                    /\ Handled(c, nxt.out, {}, okWrites < 3,
                               Input(c, field, kind, value, "updated"))
               ELSE /\ okWrites \in {0, 3}
                    /\ orders' = upd.table
                    /\ Handled(c, << >>, {}, okWrites < 3,
                               Input(c, field, kind, value, "update_failed"))

Next ==
    \/ \E c \in OrderChannels : handle_start_order_submission(c)
    \/ \E c \in OrderChannels, app \in Apps : handle_app_selection(c, app)
    \/ \E c \in OrderChannels, file \in Files : file_upload(c, file)
    \/ \E c \in OrderChannels : handle_message_restart(c)
    \/ \E c \in OrderChannels : handle_restart_order(c)
    \/ \E c \in OrderChannels, field \in Fields : handle_verification_yes(c, field)
    \/ \E c \in OrderChannels, field \in Fields : handle_verification_no(c, field)
    \/ \E c \in OrderChannels, kind \in {"correct", "missing"}, field \in Fields :
          handle_user_input(c, kind, field)

Spec == Init /\ [][Next]_vars

\* ------------------------------------------------------------------ long runs
\* The state after handle_start_order_submission and handle_app_selection
\* ("uber") have succeeded, with a bound on events that lets an order reach
\* 'completed', and no failure of Slack, the store or the backend.
InitLong ==
    /\ channels = OrderChannels
    /\ members = OrderChannels
    /\ orders = [c \in OrderChannels |->
                    [NewOrder EXCEPT !["status"] = "awaiting_initial_screenshot",
                                     !["app_used"] = "uber"]]
    /\ prompts = [c \in Conversations |-> {}]
    /\ out = <<<<"next_step", "awaiting_initial_screenshot">>>>
    /\ ev = [kind |-> "select_app", c |-> "c1", arg |-> "uber", tag |-> "none",
             file |-> NoFile, value |-> None, pre |-> "awaiting_app_selection", res |-> "updated"]
    /\ events = 0
    /\ faults = 0
    /\ limit = [events |-> MaxLongEvents, faults |-> 0]
    /\ threads = [t \in Threads |-> Idle]
    /\ calc = NoCalc

NextLong ==
    \/ \E c \in OrderChannels, file \in Files : file_upload(c, file)
    \/ \E c \in OrderChannels : handle_message_restart(c)
    \/ \E c \in OrderChannels : handle_restart_order(c)
    \/ \E c \in OrderChannels, field \in Fields : handle_verification_yes(c, field)
    \/ \E c \in OrderChannels, field \in Fields : handle_verification_no(c, field)
    \/ \E c \in OrderChannels, kind \in {"correct", "missing"}, field \in Fields :
          handle_user_input(c, kind, field)

SpecLong == InitLong /\ [][NextLong]_vars

\* ------------------------------------------------------------------ late runs
\* The row once the placement screenshot gave all four values (each 1) and
\* the user confirmed each of them: the order waits for the completion
\* screenshot.
VerifiedPlacementOrder ==
    [k \in Columns |->
        CASE k = "status" -> "awaiting_completion_screenshot"
          [] k = "app_used" -> "uber"
          [] k = "placement_screenshot_path" -> 1
          [] k \in {"restaurant_name", "order_placement_time",
                    "earliest_estimated_arrival_time",
                    "latest_estimated_arrival_time"} -> 1
          [] k \in {"is_restaurant_name_verified", "is_order_placement_time_verified",
                    "is_earliest_estimated_arrival_time_verified",
                    "is_latest_estimated_arrival_time_verified"} -> TRUE
          [] k \in Flags -> FALSE
          [] OTHER -> None]

\* The state SpecLong reaches by one upload and four Yes answers.
AtLateStart ==
    /\ channels = OrderChannels
    /\ members = OrderChannels
    /\ orders = [c \in OrderChannels |-> VerifiedPlacementOrder]
    /\ prompts = [c \in Conversations |-> {}]
    /\ out = <<<<"progress", "awaiting_completion_screenshot">>,
               <<"next_step", "awaiting_completion_screenshot">>>>
    /\ ev = [kind |-> "verify_yes", c |-> "c1", arg |-> "latest_estimated_arrival_time",
             tag |-> "none", file |-> NoFile, value |-> None, pre |-> "verifying_initial_data",
             res |-> "updated"]

InitLate ==
    /\ AtLateStart
    /\ events = 0
    /\ faults = 0
    /\ limit = [events |-> MaxLateEvents, faults |-> MaxFaults]
    /\ threads = [t \in Threads |-> Idle]
    /\ calc = NoCalc

SpecLate == InitLate /\ [][NextLong]_vars

\* The runs of Spec together with those of SpecLate.
InitBoth == Init \/ InitLate
SpecBoth == InitBoth /\ [][Next]_vars

\* ------------------------------------------------------------------ main runs
\* The runs in which the user also writes in the main conversation: uploads
\* and the text "restart" (handle_message and handle_file_shared_events take
\* the channel from the event).
InitMain == InitWith(MaxMainEvents, MaxFaults)

NextMain ==
    \/ \E c \in OrderChannels : handle_start_order_submission(c)
    \/ \E c \in OrderChannels, app \in Apps : handle_app_selection(c, app)
    \/ \E c \in OrderChannels \cup {MainConversation}, file \in Files : file_upload(c, file)
    \/ \E c \in OrderChannels \cup {MainConversation} : handle_message_restart(c)
    \/ \E c \in OrderChannels : handle_restart_order(c)
    \/ \E c \in OrderChannels, field \in Fields : handle_verification_yes(c, field)
    \/ \E c \in OrderChannels, field \in Fields : handle_verification_no(c, field)
    \/ \E c \in OrderChannels, kind \in {"correct", "missing"}, field \in Fields :
          handle_user_input(c, kind, field)

SpecMain == InitMain /\ [][NextMain]_vars

\* The starting states of the long and the late runs are states the runs
\* from the start reach: SpecLong's start under Spec, SpecLate's under
\* SpecLong (checked as invariants, each of which TLC finds violated).
LongStartUnreached ==
    ~(/\ channels = OrderChannels
      /\ members = OrderChannels
      /\ orders = [c \in OrderChannels |->
                      [NewOrder EXCEPT !["status"] = "awaiting_initial_screenshot",
                                       !["app_used"] = "uber"]]
      /\ prompts = [c \in Conversations |-> {}]
      /\ out = <<<<"next_step", "awaiting_initial_screenshot">>>>
      /\ ev = [kind |-> "select_app", c |-> "c1", arg |-> "uber", tag |-> "none",
               file |-> NoFile, value |-> None, pre |-> "awaiting_app_selection", res |-> "updated"]
      /\ faults = 0)
LateStartUnreached == ~AtLateStart


\* ------------------------------------------------------------------ runs with two orders
\* The user has an order in channel c2 that waits for its completion
\* screenshot, and starts another one, for which channel c1 is created.
InitPair ==
    /\ channels = {"c2"}
    /\ members = {"c2"}
    /\ orders = ("c2" :> VerifiedPlacementOrder)
    /\ prompts = [c \in Conversations |-> {}]
    /\ out = <<<<"progress", "awaiting_completion_screenshot">>,
               <<"next_step", "awaiting_completion_screenshot">>>>
    /\ ev = [kind |-> "verify_yes", c |-> "c2", arg |-> "latest_estimated_arrival_time",
             tag |-> "none", file |-> NoFile, value |-> None, pre |-> "verifying_initial_data",
             res |-> "updated"]
    /\ events = 0
    /\ faults = 0
    /\ limit = [events |-> MaxPairEvents, faults |-> MaxFaults]
    /\ threads = [t \in Threads |-> Idle]
    /\ calc = NoCalc

NextPair ==
    \/ \E c \in PairChannels : handle_start_order_submission(c)
    \/ \E c \in PairChannels, app \in Apps : handle_app_selection(c, app)
    \/ \E c \in PairChannels, file \in Files : file_upload(c, file)
    \/ \E c \in PairChannels : handle_message_restart(c)
    \/ \E c \in PairChannels : handle_restart_order(c)
    \/ \E c \in PairChannels, field \in Fields : handle_verification_yes(c, field)
    \/ \E c \in PairChannels, field \in Fields : handle_verification_no(c, field)
    \/ \E c \in PairChannels, kind \in {"correct", "missing"}, field \in Fields :
          handle_user_input(c, kind, field)

SpecPair == InitPair /\ [][NextPair]_vars

\* ------------------------------------------------------------------ interleaved runs
\* Bolt runs every listener on a thread of its pool, and no handler locks
\* the row: here a handler is a sequence of steps, one per access to the
\* store, and the steps of two handlers interleave.  Between a read
\* (get_order_info) and the write that follows it a thread keeps the row it
\* read in `order`.  No call fails in these runs.

\* current_stage of handle_stage_completion with the row read anew.
current_stage_reread(table, channel_id, order) == table[channel_id]["status"]

\* current_stage of handle_stage_completion: the status of the row that
\* its caller read.
current_stage(table, channel_id, order) == order["status"]

\* What the backend answers in these runs: a restaurant name or nothing
\* for a placement screenshot, a completion time or nothing otherwise.
RaceAnswers(image_stage) ==
    {answer \in BackendAnswers(image_stage) :
        /\ ~answer.raises
        /\ answer.fields["restaurant_address"] = None
        /\ answer.fields["restaurant_name"] # Empty
        /\ \A f \in {"order_placement_time", "earliest_estimated_arrival_time",
                      "latest_estimated_arrival_time"} : answer.fields[f] = None}

\* The runs start where SpecLong starts (the app was selected) or where
\* SpecLate starts (the placement data is verified).
InitRace ==
    /\ \/ /\ channels = OrderChannels
          /\ members = OrderChannels
          /\ orders = [c \in OrderChannels |->
                          [NewOrder EXCEPT !["status"] = "awaiting_initial_screenshot",
                                           !["app_used"] = "uber"]]
          /\ prompts = [c \in Conversations |-> {}]
          /\ out = <<<<"next_step", "awaiting_initial_screenshot">>>>
          /\ ev = [kind |-> "select_app", c |-> "c1", arg |-> "uber", tag |-> "none",
                   file |-> NoFile, value |-> None, pre |-> "awaiting_app_selection",
                   res |-> "updated"]
       \/ AtLateStart
    /\ events = 0
    /\ faults = 0
    /\ limit = [events |-> MaxRaceEvents, faults |-> 0]
    /\ threads = [t \in Threads |-> Idle]
    /\ calc = NoCalc

\* One step of thread t: its new position, the messages posted, the
\* buttons taken away, and the record of the step.
Stepped(t, local, c, msgs, removed, event, started) ==
    /\ threads' = [threads EXCEPT ![t] = local]
    /\ out' = msgs
    /\ prompts' = [prompts EXCEPT ![c] = (@ \ removed) \cup Buttons(msgs)]
    /\ ev' = event
    /\ events' = IF started THEN events + 1 ELSE events
    /\ UNCHANGED <<channels, members, faults, limit, calc>>

At(pc, c, order, updates) == [pc |-> pc, c |-> c, order |-> order, updates |-> updates]

\* process_image up to the extraction: the file checks pass, the row is
\* read, the file saved and read by the backend, `updates` built.
thread_process_image_read(t, c) ==
    /\ MoreEvents
    /\ threads[t] = Idle
    /\ c \in members
    /\ c \in DOMAIN orders
    /\ UNCHANGED orders
    /\ \E answer \in RaceAnswers(ImageStage(orders[c]["status"])) :
       LET order == orders[c]
           extracted == gemini_process_image(answer, ImageStage(order["status"]))
           updates == ImageUpdates(order["status"], NextPath(order), extracted)
       IN  Stepped(t, At("image_update", c, order, updates), c, << >>, {},
                   Event("image_read", c, "none", order["status"], "read"), TRUE)

\* process_image: update_order(channel_id, updates).
thread_process_image_update(t) ==
    /\ threads[t].pc = "image_update"
    /\ LET c == threads[t].c
           upd == update_order(orders, c, threads[t].updates, TRUE)
       IN  /\ orders' = upd.table
           /\ IF upd.ok
              THEN Stepped(t, At("verification_read", c, threads[t].order, << >>), c,
                           << >>, {},
                           Event("image_update", c, "none", threads[t].order["status"],
                                 threads[t].updates["status"]), FALSE)
              ELSE Stepped(t, Idle, c,
                           <<Text("Error processing image: Failed to update order in database")>>,
                           {},
                           Event("image_update", c, "none", threads[t].order["status"],
                                 "update_failed"), FALSE)

\* handle_verification_yes up to its call of start_field_verification.
thread_verification_yes(t, c, field) ==
    /\ MoreEvents
    /\ threads[t] = Idle
    /\ c \in members
    /\ <<"verify", field>> \in prompts[c]
    /\ LET upd == update_order(orders, c, FlagOf(field) :> TRUE, TRUE)
       IN  /\ orders' = upd.table
           /\ Stepped(t,
                      IF upd.ok THEN At("verification_read", c, orders[c], << >>) ELSE Idle,
                      c, << >>, {<<"verify", field>>},
                      Event("verify_yes", c, field, "none",
                            IF upd.ok THEN "updated" ELSE "update_failed"), TRUE)

\* start_field_verification: get_order_info, then the prompt for the next
\* field, or handle_stage_completion up to its update.
thread_start_field_verification(t) ==
    /\ threads[t].pc = "verification_read"
    /\ UNCHANGED orders
    /\ LET c == threads[t].c
           order == orders[c]
           next == get_next_unverified_field(order)
       IN  IF next[1] # NoField
           THEN Stepped(t, Idle, c, <<<<"verify", next[1]>>>>, {},
                        Event("verification_read", c, next[1], order["status"], "asked"),
                        FALSE)
           ELSE IF ORDER_STAGES_next(order["status"]) = "none"
           THEN Stepped(t, Idle, c, <<TerminalText>>, {},
                        Event("verification_read", c, "none", order["status"], "terminal"),
                        FALSE)
           ELSE Stepped(t, At("stage_update", c, order, << >>), c, << >>, {},
                        Event("verification_read", c, "none", order["status"], "read"),
                        FALSE)

\* handle_stage_completion: update_order(order['channel_id'],
\* {'status': next_stage}) and the messages after it.
thread_handle_stage_completion(t) ==
    /\ threads[t].pc = "stage_update"
    /\ LET c == threads[t].c
           next_stage == ORDER_STAGES_next(current_stage(orders, c, threads[t].order))
           upd == update_order(orders, c, "status" :> next_stage, TRUE)
           shown == <<<<"progress", next_stage>>>>
                    \o (IF ORDER_STAGES_prompt(next_stage)
                        THEN <<<<"next_step", next_stage>>>> ELSE << >>)
       IN  /\ orders' = upd.table
           /\ IF ~upd.ok
              THEN Stepped(t, Idle, c, << >>, {},
                           Event("stage_update", c, "none", threads[t].order["status"],
                                 "update_failed"), FALSE)
              ELSE Stepped(t,
                           IF next_stage = "collecting_missing_info"
                           THEN At("missing_read", c, threads[t].order, << >>) ELSE Idle,
                           c, shown, {},
                           Event("stage_update", c, "none", threads[t].order["status"],
                                 next_stage), FALSE)

\* check_for_missing_info: get_order_info and the prompts for the missing
\* fields, if any.
thread_check_for_missing_info_read(t) ==
    /\ threads[t].pc = "missing_read"
    /\ UNCHANGED orders
    /\ LET c == threads[t].c
           order == orders[c]
           missing == missing_fields(order)
       IN  IF Len(missing) > 0
           THEN Stepped(t, Idle, c,
                        <<Text("We're missing some information:")>>
                        \o [i \in 1..Len(missing) |-> <<"missing", missing[i][1]>>], {},
                        Event("missing_read", c, "none", order["status"], "asked"), FALSE)
           ELSE Stepped(t, At("complete_update", c, order, << >>), c, << >>, {},
                        Event("missing_read", c, "none", order["status"], "read"), FALSE)

\* check_for_missing_info: update_order(channel_id, {'status': 'completed'}).
thread_check_for_missing_info_update(t) ==
    /\ threads[t].pc = "complete_update"
    /\ LET c == threads[t].c
           upd == update_order(orders, c, "status" :> "completed", TRUE)
       IN  /\ orders' = upd.table
           /\ Stepped(t, Idle, c, IF upd.ok THEN <<CompleteText>> ELSE << >>, {},
                      Event("complete_update", c, "none", threads[t].order["status"],
                            IF upd.ok THEN "completed" ELSE "update_failed"), FALSE)

NextRace ==
    \/ \E t \in Threads, c \in OrderChannels : thread_process_image_read(t, c)
    \/ \E t \in Threads : thread_process_image_update(t)
    \/ \E t \in Threads, c \in OrderChannels, field \in Fields :
          thread_verification_yes(t, c, field)
    \/ \E t \in Threads : thread_start_field_verification(t)
    \/ \E t \in Threads : thread_handle_stage_completion(t)
    \/ \E t \in Threads : thread_check_for_missing_info_read(t)
    \/ \E t \in Threads : thread_check_for_missing_info_update(t)

SpecRace == InitRace /\ [][NextRace]_vars

\* ------------------------------------------------------------------ runs with an event delivered twice
\* One press of Yes reaches the app twice (a double click, or a delivery
\* that Slack repeats): Bolt starts a handler for each on a thread of its
\* own, and the two run one after the other or interleaved.

\* The verify_field_yes event for `field` arrives twice.
deliver_verification_yes_twice(c, field) ==
    /\ MoreEvents
    /\ \A t \in Threads : threads[t] = Idle
    /\ c \in members
    /\ c \in DOMAIN orders
    /\ <<"verify", field>> \in prompts[c]
    /\ threads' = [t \in Threads |->
                      [pc |-> "yes_update", c |-> c, field |-> field,
                       updates |-> FlagOf(field) :> TRUE]]
    /\ ev' = Event("verify_yes_twice", c, field, "none", "delivered")
    /\ events' = events + 1
    /\ UNCHANGED <<channels, members, orders, prompts, out, faults, limit, calc>>

\* handle_verification_yes of one of the two: the buttons are taken off the
\* message, then update_order(channel_id, {verification_flag: True}).
thread_verification_yes_update(t) ==
    /\ threads[t].pc = "yes_update"
    /\ LET c == threads[t].c
           field == threads[t].field
           upd == update_order(orders, c, threads[t].updates, TRUE)
       IN  /\ orders' = upd.table
           /\ Stepped(t,
                      IF upd.ok THEN At("verification_read", c, orders[c], << >>) ELSE Idle,
                      c, << >>, {<<"verify", field>>},
                      Event("verify_yes", c, field, "twice",
                            IF upd.ok THEN "updated" ELSE "update_failed"), FALSE)

NextTwice ==
    \/ \E t \in Threads, c \in OrderChannels : thread_process_image_read(t, c)
    \/ \E t \in Threads : thread_process_image_update(t)
    \/ \E t \in Threads, c \in OrderChannels, field \in Fields :
          thread_verification_yes(t, c, field)
    \/ \E c \in OrderChannels, field \in Fields : deliver_verification_yes_twice(c, field)
    \/ \E t \in Threads : thread_verification_yes_update(t)
    \/ \E t \in Threads : thread_start_field_verification(t)
    \/ \E t \in Threads : thread_handle_stage_completion(t)
    \/ \E t \in Threads : thread_check_for_missing_info_read(t)
    \/ \E t \in Threads : thread_check_for_missing_info_update(t)

SpecTwice == InitRace /\ [][NextTwice]_vars

\* ------------------------------------------------------------------ runs of a user who answers
\* The order was just created, and the user does what the bot asks for and
\* nothing else: selects an app, uploads an accepted image while the order
\* waits for one, says Yes to a value that is right and No to one that is
\* not, corrects a rejected value, fills in a missing one.  The right value
\* of a field is one of 1..MaxVal.  No call fails.
InitLive ==
    /\ channels = OrderChannels
    /\ members = OrderChannels
    /\ orders = [c \in OrderChannels |-> NewOrder]
    /\ prompts = [c \in Conversations |-> IF c \in OrderChannels THEN {SelectPrompt} ELSE {}]
    /\ out = <<SelectPrompt, Text("Created private channel for your order")>>
    /\ ev = [kind |-> "start", c |-> "c1", arg |-> "none", tag |-> "none",
             file |-> NoFile, value |-> None, pre |-> "none", res |-> "created"]
    /\ events = 0
    /\ faults = 0
    /\ limit = [events |-> MaxLiveEvents, faults |-> 0]
    /\ threads = [t \in Threads |-> Idle]
    /\ calc = NoCalc

\* The value on record is one the user takes for right.
RightValue(order, field) ==
    IF field = "restaurant_address" THEN order[field] # None ELSE order[field] \in 1..MaxVal

user_selects_app(c) ==
    /\ c \in DOMAIN orders
    /\ \E app \in Apps : handle_app_selection(c, app)

user_uploads(c) ==
    /\ StatusOf(orders, c) \in {"awaiting_initial_screenshot", "awaiting_completion_screenshot"}
    /\ \E file \in Files : FileAccepted(file) /\ file_upload(c, file)

user_confirms(c, field) ==
    /\ c \in DOMAIN orders
    /\ RightValue(orders[c], field)
    /\ handle_verification_yes(c, field)

user_rejects(c, field) ==
    /\ c \in DOMAIN orders
    /\ ~RightValue(orders[c], field)
    /\ handle_verification_no(c, field)

user_corrects(c, field) ==
    /\ c \in DOMAIN orders
    /\ ~RightValue(orders[c], field)
    /\ ~orders[c][FlagOf(field)]
    /\ handle_user_input(c, "correct", field)
    /\ ev'.value \in 1..MaxVal

user_supplies(c, field) ==
    /\ c \in DOMAIN orders
    /\ ~Truthy(orders[c][field])
    /\ ~orders[c][FlagOf(field)]
    /\ handle_user_input(c, "missing", field)
    /\ ev'.value \in 1..MaxVal

NextLive ==
    \/ \E c \in OrderChannels : user_selects_app(c)
    \/ \E c \in OrderChannels : user_uploads(c)
    \/ \E c \in OrderChannels, field \in Fields : user_confirms(c, field)
    \/ \E c \in OrderChannels, field \in Fields : user_rejects(c, field)
    \/ \E c \in OrderChannels, field \in Fields : user_corrects(c, field)
    \/ \E c \in OrderChannels, field \in Fields : user_supplies(c, field)

\* There is something for the user to answer: a button or an input block
\* that one of the six actions above takes, or an order that waits for a
\* screenshot.  (The state predicate that ENABLED NextLive is.)
CanAnswer ==
    /\ MoreEvents
    /\ \E c \in OrderChannels :
        /\ c \in members
        /\ c \in DOMAIN orders
        /\ \/ SelectPrompt \in prompts[c]
           \/ StatusOf(orders, c) \in {"awaiting_initial_screenshot",
                                       "awaiting_completion_screenshot"}
           \/ \E field \in Fields :
                \/ <<"verify", field>> \in prompts[c]
                \/ /\ <<"correct", field>> \in prompts[c]
                   /\ ~RightValue(orders[c], field)
                   /\ ~orders[c][FlagOf(field)]
                \/ /\ <<"missing", field>> \in prompts[c]
                   /\ ~Truthy(orders[c][field])
                   /\ ~orders[c][FlagOf(field)]

\* The user answers, and the handler of the answer runs.
Answered == CanAnswer /\ events' = events + 1

\* The user goes on answering as long as there is something to answer, and
\* Bolt runs the handler of every event it receives.
SpecLive == InitLive /\ [][NextLive]_vars /\ WF_events(Answered)

\* The same runs without the condition on the user.
SpecLiveSafety == InitLive /\ [][NextLive]_vars

\* ------------------------------------------------------------------ calls
\* The functions called on their own: the initial state draws the call and
\* its arguments, the one step applies the function.
Call(fn, arg) == [fn |-> fn, done |-> FALSE, arg |-> arg, result |-> "none"]

\* An `updates` dictionary with or without the key k.
Part(k, values) == {<< >>} \cup {k :> v : v \in values}

\* The dictionaries handed to update_order: any of three columns, with any
\* of two keys that are no column of the orders table.
UpdateDicts ==
    {a @@ b @@ c @@ d @@ e :
        a \in Part("status", {"completed", "awaiting_app_selection"}),
        b \in Part("restaurant_name", {None, 1}),
        c \in Part("is_restaurant_name_verified", {TRUE}),
        d \in Part("restaurant_phone", {1}),
        e \in Part("delivery_fee", {1})}

\* The tables handed to update_order: no row, or the row of channel c1.
UpdateTables == {<< >>} \cup {"c1" :> row : row \in {NewOrder, VerifiedPlacementOrder}}

update_order_calls ==
    {Call("update_order", [table |-> t, channel_id |-> "c1", updates |-> u, dbOk |-> ok]) :
        t \in UpdateTables, u \in UpdateDicts, ok \in BOOLEAN}

parse_human_time_to_unix_calls ==
    {Call("parse_human_time_to_unix", [time_str |-> text, today |-> d]) :
        text \in TimeTexts, d \in Dates}

\* The lines of the answers handed to extract_initial_times.
WindowStrings ==
    {NoLine, [hour |-> 9, minute |-> 17, designator |-> "PM", space |-> TRUE]}

extract_initial_times_calls ==
    {Call("extract_initial_times",
          [placement |-> pl, earliest |-> e, latest |-> l, today |-> d]) :
        pl \in TimeStrings \cup {NoLine}, e \in WindowStrings, l \in WindowStrings,
        d \in Dates}

\* The candidates of the lists handed to process_gemini_response.
Candidates ==
    {[hour |-> h, minute |-> 0, designator |-> d, space |-> d # "none"] :
        h \in {9, 11}, d \in Designators \cup {"none"}}

\* The lists extracted_times can be: re.findall is run pattern by pattern,
\* so the times with a designator (first pattern) come before the bare
\* ones (second pattern).
ExtractedLists ==
    {list \in UNION {[1..n -> Candidates] : n \in 0..MaxCandidates} :
        \A i \in 1..Len(list), j \in 1..Len(list) :
            (i < j /\ list[i].designator = "none") => list[j].designator = "none"}

process_gemini_response_calls ==
    {Call("process_gemini_response", [extracted_times |-> list, today |-> 20176]) :
        list \in ExtractedLists}

InitCalc ==
    /\ StartWith(0, 0)
    /\ \/ calc \in update_order_calls
       \/ calc \in parse_human_time_to_unix_calls
       \/ calc \in extract_initial_times_calls
       \/ calc \in process_gemini_response_calls

Returned(result) ==
    /\ ~calc.done
    /\ calc' = [calc EXCEPT !.done = TRUE, !.result = result]
    /\ UNCHANGED <<channels, members, orders, prompts, out, ev, events, faults,
                   limit, threads>>

call_update_order ==
    /\ calc.fn = "update_order"
    /\ Returned(update_order(calc.arg.table, calc.arg.channel_id, calc.arg.updates,
                             calc.arg.dbOk))

call_parse_human_time_to_unix ==
    /\ calc.fn = "parse_human_time_to_unix"
    /\ Returned(parse_human_time_to_unix_at(calc.arg.time_str, calc.arg.today))

call_extract_initial_times ==
    /\ calc.fn = "extract_initial_times"
    /\ Returned(extract_initial_times(calc.arg.placement, calc.arg.earliest,
                                      calc.arg.latest, calc.arg.today))

call_process_gemini_response ==
    /\ calc.fn = "process_gemini_response"
    /\ Returned(process_gemini_response(calc.arg.extracted_times, calc.arg.today))

NextCalc ==
    \/ call_update_order
    \/ call_parse_human_time_to_unix
    \/ call_extract_initial_times
    \/ call_process_gemini_response

SpecCalc == InitCalc /\ [][NextCalc]_vars

\* ------------------------------------------------------------------ claims
\* Position of a status in the stage sequence.
StageIndex(status) == CHOOSE i \in 1..Len(Stages) : Stages[i] = status

\* C1: a verification flag of an order is true only if the field it belongs
\* to holds a non-null value.
C1_FlagOnlyWithValue ==
    \A c \in DOMAIN orders : \A field \in Fields :
        orders[c][FlagOf(field)] => orders[c][field] # None

\* C2: no event other than the restart moves the status of an order to an
\* earlier stage of the sequence.
C2_StatusMonotonic ==
    [][\A c \in DOMAIN orders :
          (c \in DOMAIN orders' /\ ev'.kind # "restart")
          => StageIndex(orders'[c]["status"]) >= StageIndex(orders[c]["status"])]_vars

\* C3: an image uploaded while the order is neither in
\* awaiting_initial_screenshot nor in awaiting_completion_screenshot changes
\* neither the status nor any stored field.
C3_UploadOnlyWhenAwaited ==
    [][(/\ ev'.kind = "upload"
        /\ ev'.c \in DOMAIN orders
        /\ orders[ev'.c]["status"] \notin {"awaiting_initial_screenshot",
                                           "awaiting_completion_screenshot"})
       => orders' = orders]_vars

\* C4: when the extraction from an image uploaded in one of the two awaiting
\* statuses fails (the backend raises, or every extracted value is null), the
\* status of the order stays as it was and the user is told of an error.
C4_ExtractionFailureAborts ==
    [][(/\ ev'.kind = "upload"
        /\ ev'.tag \in {"raised", "all_null"}
        /\ ev'.pre \in {"awaiting_initial_screenshot", "awaiting_completion_screenshot"})
       => /\ StatusOf(orders', ev'.c) = ev'.pre
          /\ \E i \in 1..Len(out') :
                /\ out'[i][1] = "text"
                /\ out'[i] \notin {CompleteText, TerminalText,
                                   Text("We're missing some information:")}]_vars

\* C5: an uploaded file whose type is none of image/png, image/jpeg and
\* image/jpg, or whose size is above 5 MB, is turned away with a message
\* before any extraction and any write: the orders are as they were, in
\* every status.
C5_BadFileRejected ==
    [][(/\ ev'.kind = "upload"
        /\ \/ ev'.file.mimetype \notin {"image/png", "image/jpeg", "image/jpg"}
           \/ ev'.file.size > 5 * 1024 * 1024)
       => /\ orders' = orders
          /\ ev'.tag = "not_called"
          /\ faults' = faults
          /\ prompts' = prompts
          /\ Len(out') = 1 /\ out'[1][1] = "text"]_vars

\* An image above 5 MB was turned away while an order was being verified.
C5_Witness ==
    /\ ev.kind = "upload"
    /\ ev.file.size > 5 * 1024 * 1024
    /\ ev.pre = "verifying_initial_data"
    /\ out = <<Text("Image too large. Max size: 5MB.")>>

\* The status and the verification flags of a row.
StatusAndFlags(row) == [k \in {"status"} \cup Flags |-> row[k]]

\* What select_app followed by an upload gives on a row when every call
\* succeeds: the status and flags written and the messages posted.
SelectThenUpload(row, app_used, answer) ==
    LET selected == update_order("c1" :> row, "c1",
                        ("app_used" :> app_used) @@ ("status" :> "awaiting_initial_screenshot"),
                        TRUE)
        uploaded == process_image(selected.table, "c1", answer,
                        NextPath(selected.table["c1"]), TRUE, TRUE, TRUE)
    IN  [row |-> StatusAndFlags(uploaded.table["c1"]), out |-> uploaded.out]

\* C6: after a restart, select_app followed by an upload gives the status,
\* the flags and the prompts it gives on a freshly created order, for the same
\* app and the same extraction result.
C6_RestartLikeFresh ==
    (ev.kind = "restart" /\ ev.res = "updated")
    => \A app_used \in Apps, answer \in BackendAnswers("awaiting_placement_time") :
          SelectThenUpload(orders[ev.c], app_used, answer)
          = SelectThenUpload(NewOrder, app_used, answer)

\* C7: the status of every order is one of the seven stages.
C7_StatusIsAStage ==
    \A c \in DOMAIN orders :
        orders[c]["status"] \in {Stages[i] : i \in 1..Len(Stages)}

\* The last field was confirmed and the order moved to the next stage.
C7_Witness ==
    /\ ev.kind = "verify_yes"
    /\ ev.res = "updated"
    /\ ev.pre = "verifying_initial_data"
    /\ orders[ev.c]["status"] = "awaiting_completion_screenshot"

\* C8: an order in status completed stays in it under every event but the
\* restart, and such an event posts no verification or input prompt.
C8_CompletedIsTerminal ==
    [][\A c \in DOMAIN orders :
          (orders[c]["status"] = "completed" /\ ev'.kind # "restart")
          => /\ orders'[c]["status"] = "completed"
             /\ ev'.c = c => Buttons(out') \subseteq {RestartPrompt}]_vars

\* The fields of a row that hold a value and are not verified, by position
\* in the fixed order.
Pending(row) ==
    {i \in 1..Len(verification_order) :
        row[verification_order[i][1]] # None /\ ~row[verification_order[i][2]]}

\* The columns an upload in status `pre` is to write.
UploadColumns(pre) ==
    IF pre = "awaiting_initial_screenshot"
    THEN {"status", "placement_screenshot_path", "restaurant_name",
          "order_placement_time", "earliest_estimated_arrival_time",
          "latest_estimated_arrival_time"}
    ELSE {"status", "completion_screenshot_path", "order_completion_time"}

\* C9: an accepted upload in awaiting_initial_screenshot (resp.
\* awaiting_completion_screenshot) whose update succeeds writes the new
\* screenshot path and the stage's fields and nothing else, and, if a field
\* then holds a value with a false flag, ends in verifying_initial_data
\* (resp. verifying_completion_data) with exactly one message posted: the
\* yes/no prompt for the first such field of the fixed order.
C9_UploadStartsVerification ==
    [][(/\ ev'.kind = "upload"
        /\ ev'.res = "updated"
        /\ ev'.pre \in {"awaiting_initial_screenshot", "awaiting_completion_screenshot"})
       => LET before == orders[ev'.c]
              after == orders'[ev'.c]
              path == IF ev'.pre = "awaiting_initial_screenshot"
                      THEN "placement_screenshot_path" ELSE "completion_screenshot_path"
              verifying == IF ev'.pre = "awaiting_initial_screenshot"
                           THEN "verifying_initial_data" ELSE "verifying_completion_data"
          IN  /\ before["status"] = ev'.pre
              /\ after[path] # None /\ after[path] # before[path]
              /\ \A k \in Columns \ UploadColumns(ev'.pre) : after[k] = before[k]
              /\ Pending(after) # {}
                 => /\ after["status"] = verifying
                    /\ out' = << <<"verify", verification_order[Min(Pending(after))][1]>> >>
                    /\ prompts'[ev'.c] = prompts[ev'.c] \cup {out'[1]}]_vars

\* An upload of the first screenshot gave a name and a placement time, and
\* the one prompt posted asks for the name.
C9_Witness ==
    /\ ev.kind = "upload"
    /\ ev.res = "updated"
    /\ ev.pre = "awaiting_initial_screenshot"
    /\ orders[ev.c]["status"] = "verifying_initial_data"
    /\ orders[ev.c]["restaurant_name"] = 1
    /\ orders[ev.c]["order_placement_time"] = 1
    /\ out = << <<"verify", "restaurant_name">> >>

\* C10: when the update of the order fails during an upload, the orders and
\* the live prompts are as they were before the upload (so the same upload
\* can be made again from the same state) and the one message posted is the
\* error message.
C10_FailedUpdateChangesNothing ==
    [][(ev'.kind = "upload" /\ ev'.res = "update_failed")
       => /\ orders' = orders
          /\ prompts' = prompts
          /\ out' = <<Text("Error processing image: Failed to update order in database")>>]_vars

\* The store failed during an upload of the first screenshot.
C10_Witness ==
    /\ ev.kind = "upload"
    /\ ev.res = "update_failed"
    /\ ev.pre = "awaiting_initial_screenshot"
    /\ faults = 1
    /\ orders[ev.c]["status"] = "awaiting_initial_screenshot"

\* The six fields and their flags in the fixed order.
FixedOrder ==
    <<"restaurant_name", "order_placement_time", "earliest_estimated_arrival_time",
      "latest_estimated_arrival_time", "order_completion_time", "restaurant_address">>
FixedFlags ==
    <<"is_restaurant_name_verified", "is_order_placement_time_verified",
      "is_earliest_estimated_arrival_time_verified",
      "is_latest_estimated_arrival_time_verified",
      "is_order_completion_time_verified", "is_restaurant_address_verified">>

\* C11: on the row of every order, get_next_unverified_field returns the
\* first field of the fixed order whose value is non-null and whose flag is
\* false, with its flag, and (None, None) exactly when there is none; and no
\* yes/no prompt posted by an event names a field whose value is null.
C11_NextUnverifiedField ==
    \A c \in DOMAIN orders :
        LET row == orders[c]
            eligible == {i \in 1..6 : row[FixedOrder[i]] # None /\ ~row[FixedFlags[i]]}
            next == get_next_unverified_field(row)
        IN  /\ (eligible = {}) <=> (next = <<NoField, NoField>>)
            /\ eligible # {}
               => \E i \in eligible :
                     /\ next = <<FixedOrder[i], FixedFlags[i]>>
                     /\ \A j \in eligible : i <= j
            /\ ev.c = c
               => \A k \in 1..Len(out) : out[k][1] = "verify" => row[out[k][2]] # None

\* The placement time was confirmed on an order without a name, and the
\* prompt that followed asks for the next field holding a value.
C11_Witness ==
    /\ ev.kind = "verify_yes"
    /\ ev.arg = "order_placement_time"
    /\ ev.res = "updated"
    /\ orders[ev.c]["restaurant_name"] = None
    /\ orders[ev.c]["latest_estimated_arrival_time"] = 1
    /\ out = << <<"verify", "latest_estimated_arrival_time">> >>

\* The required fields of a row that hold no value (null or empty) and are
\* not verified, by position in the fixed order.
Missing(row) ==
    {i \in 1..5 : row[FixedOrder[i]] \in {None, Empty} /\ ~row[FixedFlags[i]]}

\* What a confirmation in a verifying stage does to the flags and values.
ConfirmSetsFlag(before, after, field) ==
    /\ after[FlagOf(field)] = TRUE
    /\ \A f \in Fields : after[f] = before[f]
    /\ \A g \in Flags \ {FlagOf(field)} : after[g] = before[g]

PlacementSetAndVerified(row) ==
    \A i \in 1..4 : row[FixedOrder[i]] \notin {None, Empty} /\ row[FixedFlags[i]]

\* The step runs the verification cycle in verifying_completion_data: an
\* upload that wrote that status, or a confirmation or correction made in it.
VerifiesCompletionData ==
    /\ ev'.res = "updated"
    /\ faults' = faults
    /\ \/ ev'.kind = "upload" /\ ev'.pre # "awaiting_initial_screenshot"
       \/ ev'.kind = "verify_yes" /\ ev'.pre = "verifying_completion_data"
       \/ ev'.kind = "input" /\ ev'.tag = "correct" /\ ev'.pre = "verifying_completion_data"

\* C13: when the verification in verifying_completion_data completes on an
\* order whose order_completion_time is null and whose other required
\* fields are set and verified, the event ends in collecting_missing_info
\* with an input prompt for order_completion_time and for no other field;
\* and a valid time submitted on that prompt sets the field and its flag
\* and ends in completed.
C13_BackfillCompletionTime ==
    [][LET before == orders[ev'.c]
           after == orders'[ev'.c]
       IN  /\ (/\ VerifiesCompletionData
               /\ Pending(after) = {}
               /\ after["order_completion_time"] = None
               /\ PlacementSetAndVerified(after))
              => /\ after["status"] = "collecting_missing_info"
                 /\ {out'[k] : k \in {j \in 1..Len(out') : out'[j][1] = "missing"}}
                    = {<<"missing", "order_completion_time">>}
           /\ (/\ ev'.kind = "input"
               /\ ev'.tag = "missing"
               /\ ev'.arg = "order_completion_time"
               /\ ev'.value \in 1..MaxVal
               /\ faults' = faults
               /\ ev'.pre = "collecting_missing_info"
               /\ before["order_completion_time"] = None
               /\ ~before["is_order_completion_time_verified"]
               /\ PlacementSetAndVerified(before))
              => /\ after["order_completion_time"] = parse_human_time_to_unix(ev'.value)
                 /\ after["is_order_completion_time_verified"]
                 /\ after["status"] = "completed"]_vars

\* C14: check_for_missing_info, as run after a successful backfill input,
\* posts an input prompt for exactly the required fields that are null and
\* unverified; when there is none it sets the status to completed and posts
\* the completion message, otherwise it leaves the status as it was.
C14_MissingPromptsExactlyNull ==
    [][(/\ ev'.kind = "input"
        /\ ev'.tag = "missing"
        /\ ev'.res = "updated"
        /\ faults' = faults)
       => LET after == orders'[ev'.c]
              nullUnverified == {i \in 1..5 : after[FixedOrder[i]] = None
                                              /\ ~after[FixedFlags[i]]}
              prompted == {out'[k][2] : k \in {j \in 1..Len(out') : out'[j][1] = "missing"}}
          IN  /\ prompted = {FixedOrder[i] : i \in nullUnverified}
              /\ IF nullUnverified = {}
                 THEN /\ after["status"] = "completed"
                      /\ out' = <<CompleteText>>
                 ELSE after["status"] = ev'.pre]_vars

\* C15: a successful input on a correction prompt for field f sets the value
\* of f and leaves every flag as it was; a successful input on a backfill
\* prompt for f sets the value of f and sets the flag of f, leaving the
\* other flags as they were.  Neither changes another field.
C15_CorrectionKeepsFlagBackfillSetsIt ==
    [][(ev'.kind = "input" /\ ev'.res = "updated")
       => LET before == orders[ev'.c]
              after == orders'[ev'.c]
              f == ev'.arg
              i == CHOOSE j \in 1..6 : FixedOrder[j] = f
              stored == IF f \in {"restaurant_name", "restaurant_address"}
                        THEN ev'.value ELSE parse_human_time_to_unix(ev'.value)
          IN  /\ after[f] = stored
              /\ \A j \in (1..6) \ {i} :
                    /\ after[FixedOrder[j]] = before[FixedOrder[j]]
                    /\ after[FixedFlags[j]] = before[FixedFlags[j]]
              /\ IF ev'.tag = "correct"
                 THEN after[FixedFlags[i]] = before[FixedFlags[i]]
                 ELSE after[FixedFlags[i]] = TRUE]_vars

\* An empty extracted name was rejected and corrected: the name is set and
\* its flag is still false.
C15_Witness ==
    /\ ev.kind = "input"
    /\ ev.tag = "correct"
    /\ ev.res = "updated"
    /\ ev.arg = "restaurant_name"
    /\ ev.value = 1
    /\ orders[ev.c]["restaurant_name"] = 1
    /\ ~orders[ev.c]["is_restaurant_name_verified"]

\* C16: when the text submitted for a time field cannot be parsed (no text,
\* or a text that is no time), on a correction prompt and on a backfill
\* prompt alike, the orders are as they were, the one message posted is an
\* error text, and the prompt is still live for another submission.
C16_BadTimeChangesNothing ==
    [][(/\ ev'.kind = "input"
        /\ ev'.arg \notin {"restaurant_name", "restaurant_address"}
        /\ ev'.value \notin 1..MaxVal)
       => /\ orders' = orders
          /\ Len(out') = 1
          /\ out'[1] \in {Text("Invalid time format. Please use HH:MM (24-hour format)"),
                         Text("Failed to update your information. Please try again.")}
          /\ prompts' = prompts
          /\ <<ev'.tag, ev'.arg>> \in prompts'[ev'.c]]_vars

\* A text that is no time was submitted as the correction of the placement
\* time.
C16_Witness ==
    /\ ev.kind = "input"
    /\ ev.tag = "correct"
    /\ ev.arg = "order_placement_time"
    /\ ev.value = BadText
    /\ ev.res = "invalid_time"
    /\ orders[ev.c]["order_placement_time"] = 1

\* C17: a rejection (the No button) of field f changes nothing in the
\* orders; the one message it posts is the correction prompt for f, which
\* takes the place of the yes/no prompt.
C17_RejectOnlyPrompts ==
    [][ev'.kind = "verify_no"
       => /\ orders' = orders
          /\ out' = << <<"correct", ev'.arg>> >>
          /\ prompts'[ev'.c]
             = (prompts[ev'.c] \ {<<"verify", ev'.arg>>}) \cup {<<"correct", ev'.arg>>}]_vars

\* The extracted placement time was rejected; it is still on record and the
\* correction prompt is posted.
C17_Witness ==
    /\ ev.kind = "verify_no"
    /\ ev.arg = "order_placement_time"
    /\ orders[ev.c]["order_placement_time"] = 1
    /\ ~orders[ev.c]["is_order_placement_time_verified"]
    /\ out = << <<"correct", "order_placement_time">> >>

C19_RestartClearsFields ==
    (ev.kind = "restart" /\ ev.res = "updated")
    => /\ orders[ev.c]["status"] = "awaiting_app_selection"
       /\ \A i \in 1..6 : orders[ev.c][FixedOrder[i]] = None
       /\ \A i \in 1..6 : ~orders[ev.c][FixedFlags[i]]

\* C20: a successful app selection writes the chosen app and the status
\* awaiting_initial_screenshot, and nothing else, and posts the prompt for
\* the first screenshot; and after every step app_used of every order is
\* null or one of uber, doordash, grubhub.
C20_AppSelection ==
    [][/\ \A c \in DOMAIN orders' :
             orders'[c]["app_used"] \in {NoApp, "uber", "doordash", "grubhub"}
       /\ (ev'.kind = "select_app" /\ ev'.res = "updated")
          => /\ ev'.arg \in {"uber", "doordash", "grubhub"}
             /\ orders' = [orders EXCEPT ![ev'.c] =
                              [@ EXCEPT !["app_used"] = ev'.arg,
                                        !["status"] = "awaiting_initial_screenshot"]]
             /\ out' = << <<"next_step", "awaiting_initial_screenshot">> >>]_vars

\* DoorDash was selected on a new order.
C20_Witness ==
    /\ ev.kind = "select_app"
    /\ ev.arg = "doordash"
    /\ ev.res = "updated"
    /\ ev.pre = "awaiting_app_selection"
    /\ orders[ev.c]["app_used"] = "doordash"
    /\ orders[ev.c]["status"] = "awaiting_initial_screenshot"

\* C21: when the channel of a new order is created and the insert of the
\* order record fails, the creation is rolled back and the failure reported:
\* the channel does not remain, no record remains, and a message is posted.
C21_CreationRollsBack ==
    [][(ev'.kind = "start" /\ ev'.res = "no_order")
       => /\ ev'.c \notin channels'
          /\ ev'.c \notin DOMAIN orders'
          /\ \E i \in 1..Len(out') : out'[i][1] = "text"]_vars

\* The messages that tell the user that the conversation has no order.
NoOrderTexts ==
    {Text("Order not found"), Text("No active order"),
     Text("No active order to restart.")}

\* C22 as stated: every event other than the start on a conversation without
\* an order record creates no record, modifies none, and tells the user that
\* no order exists; only the start creates a record.
C22_NoOrderAlwaysTold ==
    [][/\ DOMAIN orders' # DOMAIN orders => ev'.kind = "start"
       /\ (ev'.kind # "start" /\ ev'.c \notin DOMAIN orders)
          => /\ orders' = orders
             /\ \E i \in 1..Len(out') : out'[i] \in NoOrderTexts]_vars

\* C22 amended: every event other than the start on a conversation without
\* an order record creates no record and modifies none; the user is told
\* that no order exists when the event is the text "restart" or an upload
\* that passes the file checks, and told what is wrong with the file when
\* it does not pass them; only the start creates a record.
C22_NoOrderNothingFabricated ==
    [][/\ DOMAIN orders' # DOMAIN orders => ev'.kind = "start"
       /\ (ev'.kind # "start" /\ ev'.c \notin DOMAIN orders)
          => /\ orders' = orders
             /\ prompts' = prompts
             /\ IF ev'.kind = "upload" /\ ~FileAccepted(ev'.file)
                THEN out' \in {<<Text("Please upload an image file")>>,
                               <<RejectText(ev'.file)>>}
                ELSE \E i \in 1..Len(out') : out'[i] \in NoOrderTexts]_vars

\* An accepted image was uploaded in the main conversation while an order
\* existed in its own channel: "Order not found" was posted.
C22_Witness ==
    /\ ev.kind = "upload"
    /\ ev.c = MainConversation
    /\ FileAccepted(ev.file)
    /\ out = <<Text("Order not found")>>
    /\ "c1" \in DOMAIN orders
    /\ MainConversation \notin DOMAIN orders

\* C23: whenever a store update of a handler fails or changes no row, the
\* operation is not applied (the status stays, no prompt and no next step is
\* posted) and a failure message is posted to the user.
C23_UpdateFailureSurfaced ==
    [][(\/ ev'.res = "update_failed"
        \/ (ev'.res = "updated" /\ faults' > faults /\ ev'.tag # "raised"))
       => /\ StatusOf(orders', ev'.c) = ev'.pre
          /\ Buttons(out') = {}
          /\ \A i \in 1..Len(out') : out'[i][1] # "next_step"
          /\ \E i \in 1..Len(out') :
                /\ out'[i][1] = "text"
                /\ out'[i] \notin {CompleteText, TerminalText}]_vars

\* C24: update_order drops every key that is no column of the orders table
\* and applies the other keys; with no key at all, or no key that is a
\* column, it writes nothing and returns False.
C24_UnknownKeysDropped ==
    (calc.fn = "update_order" /\ calc.done)
    => LET table == calc.arg.table
           updates == calc.arg.updates
           valid == {k \in DOMAIN updates :
                        k \in {"status", "app_used", "placement_screenshot_path",
                               "completion_screenshot_path"} \cup Fields \cup Flags}
           result == calc.result
       IN  /\ DOMAIN result.table = DOMAIN table
           /\ valid = {} => (result.table = table /\ ~result.ok)
           /\ (valid # {} /\ calc.arg.dbOk /\ "c1" \in DOMAIN table)
              => /\ \A k \in DOMAIN table["c1"] :
                       result.table["c1"][k] =
                           IF k \in valid THEN updates[k] ELSE table["c1"][k]
                 /\ result.ok = (result.table # table)

\* update_order was given a column, with a new value, and a key that is no
\* column: the column was written and True returned.
C24_Witness ==
    /\ calc.fn = "update_order"
    /\ calc.done
    /\ DOMAIN calc.arg.updates = {"status", "restaurant_phone"}
    /\ calc.arg.table = ("c1" :> NewOrder)
    /\ calc.result.ok
    /\ calc.result.table["c1"] = [NewOrder EXCEPT !["status"] = "completed"]

\* C25: the handlers of one order are not serialized.  A handler writes what
\* it computed from the row it read, whatever the row holds by then, and its
\* write stands: the stage update writes the successor of the status read,
\* the update after an upload the verifying status chosen from the status
\* read, and every column the write does not name keeps its current value.
C25_WritesFromWhatWasRead ==
    [][\A t \in Threads :
          /\ (threads[t].pc = "stage_update" /\ threads'[t] # threads[t])
             => orders'[threads[t].c] =
                   [orders[threads[t].c] EXCEPT
                       !["status"] = Stages[StageIndex(threads[t].order["status"]) + 1]]
          /\ (threads[t].pc = "image_update" /\ threads'[t] # threads[t])
             => /\ orders'[threads[t].c]["status"] =
                      (IF threads[t].order["status"] = "awaiting_initial_screenshot"
                       THEN "verifying_initial_data" ELSE "verifying_completion_data")
                /\ \A flag \in Flags :
                      orders'[threads[t].c][flag] = orders[threads[t].c][flag]]_vars

\* Two uploads read the row in awaiting_initial_screenshot; the first was
\* written and verified, the order moved on past verifying_initial_data, and
\* then the second wrote verifying_initial_data, the successor of the status
\* it had read.
C25_Witness ==
    /\ ev.kind = "image_update"
    /\ ev.tag = "awaiting_initial_screenshot"
    /\ ev.res = "verifying_initial_data"
    /\ StageIndex(ev.pre) > StageIndex("verifying_initial_data")
    /\ orders[ev.c]["status"] = "verifying_initial_data"

\* C26: an event addressed to the conversation of one order leaves the
\* record of every other order as it was, and its buttons too; and between
\* two events the process keeps nothing: no thread holds a row that it read.
C26_OtherOrderUntouched ==
    [][/\ \A c \in DOMAIN orders :
             c # ev'.c => (c \in DOMAIN orders' /\ orders'[c] = orders[c])
       /\ \A c \in PairChannels : c # ev'.c => prompts'[c] = prompts[c]
       /\ \A t \in Threads : threads'[t].pc = "idle"]_vars

\* An upload in channel c1 was written to the order of c1 while the order
\* of c2, in another status, was waiting for its completion screenshot.
C26_Witness ==
    /\ ev.kind = "upload"
    /\ ev.c = "c1"
    /\ ev.res = "updated"
    /\ orders["c1"]["status"] = "verifying_initial_data"
    /\ "c2" \in DOMAIN orders
    /\ orders["c2"] = VerifiedPlacementOrder

\* C27: parse_human_time_to_unix gives, for "YYYY-MM-DD HH:MM", the
\* timestamp of that minute of that day; for "HH:MM", the timestamp of that
\* minute of the current day; for any other text, None.  So "HH:MM" parsed
\* on the day D gives what "D HH:MM" gives, on whatever day it is parsed.
C27_ParseUserTime ==
    (calc.fn = "parse_human_time_to_unix" /\ calc.done)
    => LET text == calc.arg.time_str
           valid == text.hour \in 0..23 /\ text.minute \in 0..59
       IN  /\ (text.form = "date_time" /\ valid)
              => calc.result = text.date * 86400 + text.hour * 3600 + text.minute * 60
           /\ (text.form = "time" /\ valid)
              => /\ calc.result = calc.arg.today * 86400 + text.hour * 3600
                                  + text.minute * 60
                 /\ \A d \in Dates :
                       calc.result =
                          parse_human_time_to_unix_at(
                             [text EXCEPT !.form = "date_time", !.date = calc.arg.today], d)
           /\ (text.form \notin {"date_time", "time"} \/ ~valid)
              => calc.result = None

\* "14:30" was parsed on day 20176 and gave 14:30 of that day.
C27_Witness ==
    /\ calc.fn = "parse_human_time_to_unix"
    /\ calc.done
    /\ calc.arg.time_str = [form |-> "time", date |-> 0, hour |-> 14, minute |-> 30]
    /\ calc.arg.today = 20176
    /\ calc.result = 20176 * 86400 + 14 * 3600 + 30 * 60

\* The hour and the minute of the day of a timestamp.
HourOf(timestamp) == (timestamp % 86400) \div 3600
MinuteOf(timestamp) == (timestamp % 3600) \div 60

\* C28: a placement time written with a designator is stored with its hour
\* on the 24-hour clock: H:MM PM gives hour H + 12 for H in 1..11 and hour
\* 12 for 12:MM PM, H:MM AM gives hour H and 12:MM AM hour 0; the minute
\* and the current date are kept.
C28_DesignatorGives24Hour ==
    (/\ calc.fn = "extract_initial_times"
     /\ calc.done
     /\ calc.arg.placement.designator \in {"AM", "PM", "pm"}
     /\ calc.arg.placement.hour \in 1..12
     /\ calc.arg.placement.minute \in 0..59)
    => LET placement == calc.arg.placement
           stored == calc.result["order_placement_time"]
           pm == placement.designator \in {"PM", "pm"}
       IN  /\ stored # None
           /\ stored \div 86400 = calc.arg.today
           /\ MinuteOf(stored) = placement.minute
           /\ HourOf(stored) =
                 (IF pm THEN (IF placement.hour = 12 THEN 12 ELSE placement.hour + 12)
                  ELSE (IF placement.hour = 12 THEN 0 ELSE placement.hour))

\* "8:17 PM" was read from the placement line and stored as 20:17 of the
\* current day.
C28_Witness ==
    /\ calc.fn = "extract_initial_times"
    /\ calc.done
    /\ calc.arg.placement = [hour |-> 8, minute |-> 17, designator |-> "PM", space |-> TRUE]
    /\ calc.result["order_placement_time"] = calc.arg.today * 86400 + 20 * 3600 + 17 * 60

\* The numbers of kept candidates that carry AM and that carry PM.
KeptWith(kept, designators) ==
    Cardinality({i \in 1..Len(kept) : kept[i].designator \in designators})

\* C29: when one designator has a strict majority among the kept
\* candidates, every bare candidate H:MM is converted with that designator:
\* with a PM majority a bare 9:00 gives hour 21.
C29_BareTimeTakesMajority ==
    (calc.fn = "process_gemini_response" /\ calc.done)
    => LET kept == calc.result.unique_times
           am == KeptWith(kept, {"AM", "am"})
           pm == KeptWith(kept, {"PM", "pm"})
       IN  am # pm
           => \A i \in 1..Len(kept) :
                 (kept[i].designator = "none" /\ kept[i].hour \in 1..12)
                 => /\ i \in DOMAIN calc.result.time_data
                    /\ HourOf(calc.result.time_data[i]) =
                          (kept[i].hour % 12) + (IF pm > am THEN 12 ELSE 0)

\* C30: the hint is AM when more kept candidates carry AM than PM, PM when
\* more carry PM than AM, and absent when as many carry the one as the
\* other, none of them included.
C30_DominantDesignator ==
    (calc.fn = "process_gemini_response" /\ calc.done)
    => LET kept == calc.result.unique_times
           am == KeptWith(kept, {"AM", "am"})
           pm == KeptWith(kept, {"PM", "pm"})
       IN  calc.result.dominant_am_pm =
              (IF am > pm THEN "AM" ELSE IF pm > am THEN "PM" ELSE "none")

\* One kept candidate carries AM and one PM, with a bare time beside them:
\* no hint.
C30_Witness ==
    /\ calc.fn = "process_gemini_response"
    /\ calc.done
    /\ Len(calc.result.unique_times) = 3
    /\ KeptWith(calc.result.unique_times, {"AM", "am"}) = 1
    /\ KeptWith(calc.result.unique_times, {"PM", "pm"}) = 1
    /\ calc.result.dominant_am_pm = "none"

\* The text of a candidate without its designator: the hour and the minute.
StrippedText(time_str) == <<time_str.hour, time_str.minute>>

\* The candidates of a list whose stripped text no earlier candidate has.
RECURSIVE FirstOccurrences(_)
FirstOccurrences(list) ==
    IF list = << >> THEN << >>
    ELSE LET front == SubSeq(list, 1, Len(list) - 1)
             last == list[Len(list)]
         IN  IF \E i \in 1..Len(front) : StrippedText(front[i]) = StrippedText(last)
             THEN FirstOccurrences(front)
             ELSE Append(FirstOccurrences(front), last)

\* C31: the candidates kept are the first occurrences by the text without
\* the designator: of two candidates that differ only in case or in having
\* or naming a designator the second is dropped, and the hint is computed
\* from the kept ones only.
C31_DedupByStrippedText ==
    (calc.fn = "process_gemini_response" /\ calc.done)
    => LET kept == FirstOccurrences(calc.arg.extracted_times)
       IN  /\ calc.result.unique_times = kept
           /\ calc.result.dominant_am_pm = dominant_am_pm(am_pm_counts(kept))

\* C32: in a completed order each of the five required fields holds a
\* non-null value and its verification flag is true.
C32_CompletedHasAllRequired ==
    \A c \in DOMAIN orders :
        orders[c]["status"] = "completed"
        => \A i \in 1..Len(required_fields) :
              /\ orders[c][required_fields[i][1]] # None
              /\ orders[c][required_fields[i][2]]

\* C33: a Yes on a verification prompt or a Submit on an input prompt that
\* arrives while the order waits for a screenshot leaves the status as it
\* was.
C33_AwaitingLeftOnlyByUpload ==
    [][(/\ ev'.kind \in {"verify_yes", "input"}
        /\ ev'.pre \in {"awaiting_initial_screenshot", "awaiting_completion_screenshot"})
       => StatusOf(orders', ev'.c) = ev'.pre]_vars

\* C34: no event changes the value of a field whose verification flag is
\* true before the event and after it.
C34_VerifiedValueKept ==
    [][\A c \in DOMAIN orders : \A field \in Fields :
          (/\ c \in DOMAIN orders'
           /\ orders[c][FlagOf(field)]
           /\ orders'[c][FlagOf(field)])
          => orders'[c][field] = orders[c][field]]_vars

\* C35: the order of a user who answers every prompt, with no failure and
\* no restart, is completed in the end.
C35_EventuallyCompleted ==
    <>(\A c \in OrderChannels : StatusOf(orders, c) = "completed")

\* An order was completed after the user had rejected the restaurant name
\* and corrected it.
C35_Witness ==
    /\ StatusOf(orders, "c1") = "completed"
    /\ <<"correct", "restaurant_name">> \in prompts["c1"]
    /\ orders["c1"]["is_restaurant_name_verified"]

\* The bound on events is never met in these runs, and the user has
\* something to answer exactly when one of the user's actions can be taken.
LiveBoundUnmet == limit.events = MaxLiveEvents => events < limit.events
LiveCanAnswer == limit.events = MaxLiveEvents => (CanAnswer <=> ENABLED NextLive)

\* C36: of the two handlers of a Yes delivered twice, one proceeds into
\* start_field_verification only in the step in which its update turns the
\* flag from false to true, and no step turns a flag back to false: at most
\* one of the two proceeds.  The other one writes nothing and posts
\* nothing.
C36_ConfirmTwiceProceedsOnce ==
    [][/\ \A c \in DOMAIN orders : \A field \in Fields :
             orders[c][FlagOf(field)] => orders'[c][FlagOf(field)]
       /\ (ev'.kind = "verify_yes" /\ ev'.tag = "twice")
          => \E t \in Threads :
                /\ threads[t].pc = "yes_update"
                /\ threads'[t] # threads[t]
                /\ IF orders[ev'.c][FlagOf(ev'.arg)]
                   THEN /\ threads'[t] = Idle
                        /\ orders' = orders
                        /\ out' = << >>
                        /\ prompts'[ev'.c] \subseteq prompts[ev'.c]
                   ELSE /\ threads'[t].pc = "verification_read"
                        /\ orders'[ev'.c][FlagOf(ev'.arg)]]_vars

\* The second handler of a Yes delivered twice found the flag set and
\* stopped, while the first one was still in start_field_verification.
C36_Witness ==
    /\ ev.kind = "verify_yes"
    /\ ev.tag = "twice"
    /\ ev.res = "update_failed"
    /\ \E t \in Threads : threads[t].pc \in {"verification_read", "stage_update"}
    /\ \E t \in Threads : threads[t] = Idle

\* The two handlers ran one after the other: the first one had posted the
\* prompt for the next field before the second one began.
C36_WitnessSequential ==
    /\ ev.kind = "verify_yes"
    /\ ev.tag = "twice"
    /\ ev.res = "update_failed"
    /\ \A t \in Threads : threads[t] = Idle
    /\ \E field \in Fields : <<"verify", field>> \in prompts[ev.c]

\* C37: an order whose status is past awaiting_app_selection has an app on
\* record.
C37_AppSelectedPastFirstStage ==
    \A c \in DOMAIN orders :
        orders[c]["status"] # "awaiting_app_selection" => orders[c]["app_used"] # NoApp

\* The columns an upload made in the status `pre` may write.
UploadFrame(pre) ==
    IF pre = "awaiting_initial_screenshot"
    THEN {"status", "placement_screenshot_path", "restaurant_name", "order_placement_time",
          "earliest_estimated_arrival_time", "latest_estimated_arrival_time"}
    ELSE {"status", "completion_screenshot_path", "order_completion_time"}

\* C38: an upload that succeeds while the order waits for the completion
\* screenshot changes no column but status, completion_screenshot_path and
\* order_completion_time; one that succeeds while it waits for the
\* placement screenshot no column but status, placement_screenshot_path,
\* restaurant_name and the three placement times: app_used and the flags
\* stay, and order_completion_time stays in a placement upload.
C38_UploadWritesItsColumnsOnly ==
    [][(/\ ev'.kind = "upload"
        /\ ev'.res = "updated"
        /\ ev'.pre \in {"awaiting_initial_screenshot", "awaiting_completion_screenshot"})
       => \A k \in Columns \ UploadFrame(ev'.pre) :
             orders'[ev'.c][k] = orders[ev'.c][k]]_vars

\* A completion screenshot that gave a restaurant address and a completion
\* time was uploaded on an order with four verified fields: the time is on
\* record, the four flags are as they were.
C38_Witness ==
    /\ ev.kind = "upload"
    /\ ev.res = "updated"
    /\ ev.pre = "awaiting_completion_screenshot"
    /\ ev.tag = "some"
    /\ orders[ev.c]["order_completion_time"] # None
    /\ orders[ev.c]["is_latest_estimated_arrival_time_verified"]
    /\ orders[ev.c]["app_used"] = "uber"

\* C39: when an upload made while the order waits for a screenshot
\* succeeds and the extraction gave a restaurant address, the row holds
\* that address after it.
C39_AddressStored ==
    [][\A answer \in BackendAnswers(ImageStage(ev'.pre)) :
          (/\ ev'.kind = "upload"
           /\ ev'.res = "updated"
           /\ ev'.pre \in {"awaiting_initial_screenshot", "awaiting_completion_screenshot"}
           /\ ~answer.raises
           /\ answer.fields["restaurant_address"] # None
           /\ ev'.tag = "some"
           /\ orders' = process_image(orders, ev'.c, answer, NextPath(orders[ev'.c]),
                                      TRUE, TRUE, TRUE).table
           /\ out' = process_image(orders, ev'.c, answer, NextPath(orders[ev'.c]),
                                   TRUE, TRUE, TRUE).out)
          => orders'[ev'.c]["restaurant_address"] = answer.fields["restaurant_address"]]_vars

\* No row ever holds a restaurant address, and no prompt ever asks to
\* verify one.
AddressNeverOnRecord ==
    /\ \A c \in DOMAIN orders : orders[c]["restaurant_address"] = None
    /\ \A c \in Conversations : <<"verify", "restaurant_address">> \notin prompts[c]
====
